---- MODULE Spec2Model ----
(***************************************************************************)
(* Model of the Detection -> Claim -> Validation pipeline of the SAR       *)
(* system: the Omega regulatory validator, the claim generator and its     *)
(* hash chain, the claim storage, the audit trail and the rule engine.     *)
(*                                                                         *)
(* Python values are modelled as follows.  A str that the code slices or   *)
(* pads is a sequence of one-character strings; any other str is a TLA+    *)
(* string.  None is the string "None".  A bool is a BOOLEAN; a value the   *)
(* code only tests for truthiness is kept as the value the code assigned,  *)
(* with Truthy giving Python's truth value.  Amounts and scores are fixed  *)
(* point integers (scores in units of 1/10000).                            *)
(***************************************************************************)
EXTENDS Integers, Sequences, FiniteSets, TLC

VARIABLES
    filings,        \* sar_final_filings table: committed rows, in insertion order
    omegaOut,       \* outcome of the last OmegaFinalizer.finalize call
    utcYear,        \* datetime.utcnow().year, as an offset from 2026
    omegaGiven,     \* history: the checklist conditions the last Omega input violates
    filingGiven,    \* history: case_id, filing_number, year and database state of the last finalize call
    hashData,       \* a dictionary given to compute_dict_hash
    hashOther,      \* a second dictionary given to compute_dict_hash
    hashOut,        \* the digests compute_dict_hash returned for the two
    genOut,         \* outcome of the generate_claim call
    genGiven,       \* history: the arguments of the generate_claim call
    rehashOut,      \* output hashes of the returned claim and of a copy with another integrity_hashes
    claims,         \* claims table: claim_id -> committed row
    storeOut,       \* outcome of the last claim storage call
    firstSaved,     \* history: claim_id -> the claim object first saved under it
    auditRows,      \* audit_events table: committed rows, in insertion order
    auditPending,   \* rows the session has flushed and not committed
    auditNextId,    \* next value of the audit_events id sequence
    auditClock,     \* datetime.now(timezone.utc) at the last log call
    auditOut,       \* outcome of the last audit operation
    caseRun,        \* the process_case run: its position, the case row, the rule result
    logged,         \* history: the events log has returned, in call order
    ruleOut,        \* outcome of the last RuleEngine.evaluate call
    rulePrev,       \* outcome of the evaluate call before it
    ruleClock,      \* datetime.utcnow() at the last evaluate call
    hashSeed,       \* str hash seed of the interpreter process running the engine
    audit_logs,     \* audit_logs table of the audit-trail system: committed entries, in insertion order
    auditLogCalls,  \* history: the log_* calls made on the two audit services, in call order
    auditLogOut,    \* the entry the last log_* call returned
    narrativeRows,  \* narratives table: committed rows, in insertion order
    narrRequests    \* the narrative requests in flight: handler, position, what it has read

omegaVars == <<filings, omegaOut, utcYear, omegaGiven, filingGiven>>

hashVars == <<hashData, hashOther, hashOut>>

genVars == <<genOut, genGiven, rehashOut>>

storeVars == <<claims, storeOut, firstSaved>>

auditVars == <<auditRows, auditPending, auditNextId, auditClock, auditOut, logged, caseRun>>

ruleVars == <<ruleOut, rulePrev, ruleClock, hashSeed>>

logVars == <<audit_logs, auditLogCalls, auditLogOut>>

narrVars == <<narrativeRows, narrRequests>>

vars == <<omegaVars, hashVars, genVars, storeVars, auditVars, ruleVars, logVars, narrVars>>

NoneVal == "None"

(***************************************************************************)
(* Bounds of the model                                                     *)
(***************************************************************************)
MaxFilings == 1

\* the rows the table holds when cases are filed in a row, and the years that pass
MaxRefilings == 2

MaxYears == 1

MaxEvents == 3

\* log_* calls on the audit services of the audit-trail system
MaxLogCalls == 2

\* narrative requests in flight at the same time
MaxRequests == 3

(***************************************************************************)
(* RegulatoryConfig                                                        *)
(***************************************************************************)
NARRATIVE_MIN_LENGTH == 8000
MIN_CHECKS_PASS == 10
TOTAL_CHECKS == 10

\* Python truth value of an int (bool(0) is False, any other int is True)
Truthy(v) == v # 0

Min(a, b) == IF a <= b THEN a ELSE b

(***************************************************************************)
(* Inputs of finalize.  A narrative is kept as its length and the number   *)
(* of its non-whitespace characters (all the code reads of it).            *)
(***************************************************************************)
Narratives ==
    { [length |-> 0,    nonspace |-> 0],       \* ""
      [length |-> 3,    nonspace |-> 0],       \* "   "
      [length |-> 400,  nonspace |-> 350],
      [length |-> 8000, nonspace |-> 7000] }

CaseIds ==
    { <<"S", "A", "R", "-", "A", "B", "1">>,
      <<"S", "A", "R", "-", "A", "B", "2">>,
      <<"4", "2">> }

\* a raw claim dict as handed to finalize: the fields the validator reads
GoodClaim ==
    [ empty               |-> FALSE,
      claim_id            |-> "claim-1",
      case_id             |-> <<"4", "2">>,
      alert_ids           |-> 1,
      has_subject         |-> TRUE,
      typologies          |-> 1,
      suspicious_patterns |-> 1,
      evidence_set        |-> 1,
      input_hash_len      |-> 64,
      output_hash_len     |-> 64,
      output_hash_hex     |-> TRUE,       \* output_hash has hexadecimal digits only
      full_chain_hash_len |-> 64,
      pii_detected        |-> 1,
      pii_redacted        |-> 1 ]

RawClaims ==
    { GoodClaim,
      [GoodClaim EXCEPT !.empty = TRUE],                  \* {} (falsy)
      [GoodClaim EXCEPT !.claim_id = "claim-2", !.evidence_set = 0],
      [GoodClaim EXCEPT !.claim_id = "claim-3", !.alert_ids = 0, !.typologies = 0],
      [GoodClaim EXCEPT !.claim_id = "claim-4", !.case_id = <<>>, !.suspicious_patterns = 0],
      [GoodClaim EXCEPT !.claim_id = "claim-5", !.has_subject = FALSE],
      [GoodClaim EXCEPT !.claim_id = "claim-6", !.output_hash_len = 0],
      [GoodClaim EXCEPT !.claim_id = "claim-7", !.pii_redacted = 2],
      [GoodClaim EXCEPT !.claim_id = "claim-8", !.output_hash_hex = FALSE] }   \* "zz...z"

SuppliedFilingNumbers == { NoneVal, "UKFIU-SUPPLIED-000001" }

\* the arguments of the finalize calls that file several cases in a row
RefileCaseIds == { <<"S", "A", "R", "-", "A", "B", "1">>, <<"4", "2">> }

RefileClaims == { c \in RawClaims : c.claim_id \in {"claim-1", "claim-2"} /\ ~c.empty }

RefileNarratives == { n \in Narratives : n.length = 400 }

RefileFilingNumbers == { NoneVal, "", "UKFIU-SUPPLIED-000001" }

UserIds == { "system" }

(***************************************************************************)
(* ClaimObject built from raw_claim: pydantic validation of the raw dict.   *)
(* Required sections must be present, the three integrity hashes have      *)
(* min_length = max_length = 64, and validate_pii_redaction rejects        *)
(* pii_redacted > pii_detected.                                            *)
(***************************************************************************)
ClaimObjectValid(raw) ==
    /\ raw.has_subject
    /\ raw.input_hash_len = 64
    /\ raw.output_hash_len = 64
    /\ raw.full_chain_hash_len = 64
    /\ raw.pii_redacted <= raw.pii_detected

ClaimObjects == { c \in RawClaims : ~c.empty /\ ClaimObjectValid(c) }

(***************************************************************************)
(* OmegaFinalizer._run_regulatory_validation                               *)
(***************************************************************************)
\* a check result that never carries an error
CheckWithoutError(name, passed, err) ==
    [name |-> name, passed |-> passed, error |-> NoneVal]

Check(name, passed, err) ==
    [name |-> name, passed |-> passed, error |-> IF passed THEN NoneVal ELSE err]

NarrativeTooShort(narrative) ==
    "Narrative too short: " \o ToString(narrative.length) \o " chars < "
        \o ToString(NARRATIVE_MIN_LENGTH) \o " chars (regulatory minimum)"

\* check 10: the hashes are non-empty and output_hash has 64 characters
IntegrityValid(claim) ==
    /\ claim.input_hash_len > 0
    /\ claim.output_hash_len > 0
    /\ claim.full_chain_hash_len > 0
    /\ claim.output_hash_len = 64

\* checks 1-3
NarrativeChecks(narrative) ==
    << Check("claim_object_valid", TRUE, NoneVal),
       Check("narrative_not_empty",
             narrative.length > 0 /\ narrative.nonspace > 0,
             "Narrative is empty or whitespace only"),
       Check("narrative_minimum_length",
             narrative.length >= NARRATIVE_MIN_LENGTH,
             NarrativeTooShort(narrative)) >>

\* checks 4-10
ClaimChecks(claim) ==
    << Check("case_id_present", Len(claim.case_id) > 0, "Case ID is missing"),
       Check("alert_ids_present", claim.alert_ids > 0,
             "No alert IDs found - SAR must be triggered by alerts"),
       Check("subject_complete", claim.has_subject,
             "Subject information incomplete - customer ID and identifiers required"),
       Check("risk_assessment_present", claim.typologies > 0,
             "Risk assessment incomplete - score and typologies required"),
       Check("patterns_documented", claim.suspicious_patterns > 0,
             "No suspicious patterns documented - must document detected patterns"),
       Check("evidence_present", claim.evidence_set > 0,
             "No evidence items found - must provide supporting evidence"),
       Check("integrity_hashes_valid", IntegrityValid(claim),
             "Integrity hashes missing or invalid - audit trail compromised") >>

\* mutant of RegulatoryChecks: the claim is not looked at once a narrative check failed
RegulatoryChecksShortCircuit(claim, narrative) ==
    IF \E i \in 1..Len(NarrativeChecks(narrative)) : ~NarrativeChecks(narrative)[i].passed
    THEN NarrativeChecks(narrative)
    ELSE NarrativeChecks(narrative) \o ClaimChecks(claim)

RegulatoryChecks(claim, narrative) ==
    NarrativeChecks(narrative) \o ClaimChecks(claim)

PassedCount(checks) == Cardinality({ i \in 1..Len(checks) : checks[i].passed })

RunRegulatoryValidation(claim, narrative) ==
    LET checks == RegulatoryChecks(claim, narrative)
        passed_checks == PassedCount(checks)
    IN  [ checks         |-> checks,
          passed_checks  |-> passed_checks,
          failed_checks  |-> Len(checks) - passed_checks,
          total_checks   |-> TOTAL_CHECKS,
          overall_passed |-> passed_checks >= MIN_CHECKS_PASS ]

\* the error strings of the failed checks, in checklist order
RECURSIVE CollectErrors(_)
CollectErrors(checks) ==
    IF checks = <<>> THEN <<>>
    ELSE LET c == Head(checks)
         IN  (IF ~c.passed /\ c.error # NoneVal THEN <<c.error>> ELSE <<>>)
                 \o CollectErrors(Tail(checks))

(***************************************************************************)
(* OmegaFinalizer._store_final_filing                                      *)
(***************************************************************************)
RECURSIVE Join(_)
Join(chars) == IF chars = <<>> THEN "" ELSE Head(chars) \o Join(Tail(chars))

RECURSIVE Zeros(_)
Zeros(n) == IF n <= 0 THEN <<>> ELSE <<"0">> \o Zeros(n - 1)

\* str.zfill(width): left-pad with "0", after a leading sign if there is one
ZFill(chars, width) ==
    IF Len(chars) >= width THEN chars
    ELSE IF Len(chars) > 0 /\ Head(chars) \in {"+", "-"}
         THEN <<Head(chars)>> \o Zeros(width - Len(chars)) \o Tail(chars)
         ELSE Zeros(width - Len(chars)) \o chars

Prefix(chars, n) == SubSeq(chars, 1, Min(n, Len(chars)))

\* a number made of the prefix and the case_id alone
FilingNumberWithoutYear(case_id, year) ==
    "UKFIU-" \o Join(ZFill(Prefix(case_id, 6), 6))

GeneratedFilingNumber(case_id, year) ==
    "UKFIU-" \o ToString(2026 + year) \o "-" \o Join(ZFill(Prefix(case_id, 6), 6))

FilingStatus(regulatory_ready) ==
    IF Truthy(regulatory_ready) THEN "ready" ELSE "validation_failed"

StoreFinalFiling(id, case_id, claim, narrative, validation_results, regulatory_ready, filing_number, user_id, year) ==
    [ id                 |-> id,
      case_id            |-> case_id,
      claim_id           |-> claim.claim_id,
      filing_number      |-> IF filing_number \in {NoneVal, ""}
                             THEN GeneratedFilingNumber(case_id, year)
                             ELSE filing_number,
      claim_object       |-> claim,
      narrative          |-> narrative,
      regulatory_ready   |-> regulatory_ready,
      validation_results |-> validation_results,
      validation_errors  |-> CollectErrors(validation_results.checks),
      created_by         |-> user_id,
      status             |-> FilingStatus(regulatory_ready) ]

\* a write that replaces the stored filing of the same case, if there is one
UpsertRow(table, row) ==
    IF \E i \in 1..Len(table) : table[i].case_id = row.case_id
    THEN [i \in 1..Len(table) |->
             IF table[i].case_id = row.case_id THEN [row EXCEPT !.id = i] ELSE table[i]]
    ELSE Append(table, row)

\* db.add(filing) and db.commit(): one INSERT
InsertRow(table, row) == Append(table, row)

\* a failed write that leaves the added row in the table
KeepAddedRow(table, row) == Append(table, row)

\* db.rollback(): the added row is discarded
Rollback(table, row) == table

\* db.commit(): filing_number is a unique column
CommitAccepts(table, row) ==
    \A i \in 1..Len(table) : table[i].filing_number # row.filing_number

(***************************************************************************)
(* OmegaFinalizer.finalize                                                 *)
(***************************************************************************)
Raised(msg) == [kind |-> "raised", exception |-> "OmegaFinalizationError", error |-> msg]

\* line 186: regulatory_ready = passed = self.config.MIN_CHECKS_PASS
RegulatoryReady(validation_results) == MIN_CHECKS_PASS

\* the outcome of finalize and the table it leaves; dbOk is whether the
\* database accepts the write (connection, type and constraint errors aside
\* from the unique filing_number, which CommitAccepts decides)
FinalizeResult(table, year, case_id, raw_claim, narrative, filing_number, user_id, dbOk) ==
    IF Len(case_id) = 0
    THEN [out |-> Raised("case_id is required"), table |-> table]
    ELSE IF raw_claim.empty
    THEN [out |-> Raised("claim is required (from Delta stage)"), table |-> table]
    ELSE IF narrative.length = 0
    THEN [out |-> Raised("narrative is required (from Theta/RAG stage)"), table |-> table]
    ELSE IF ~ClaimObjectValid(raw_claim)
    THEN [out |-> Raised("Failed to validate ClaimObject"), table |-> table]
    ELSE
        LET validation_results == RunRegulatoryValidation(raw_claim, narrative)
            regulatory_ready   == RegulatoryReady(validation_results)
            filing == StoreFinalFiling(Len(table) + 1, case_id, raw_claim, narrative,
                                       validation_results, regulatory_ready,
                                       filing_number, user_id, year)
        IN  IF dbOk /\ CommitAccepts(table, filing)
            THEN [ out |-> [ kind               |-> "returned",
                             case_id            |-> case_id,
                             filing_id          |-> filing.id,
                             regulatory_ready   |-> regulatory_ready,
                             validation_results |-> validation_results,
                             errors             |-> CollectErrors(validation_results.checks),
                             claim              |-> raw_claim,
                             narrative          |-> narrative ],
                   table |-> InsertRow(table, filing) ]
            ELSE [out |-> Raised("Failed to store filing"), table |-> Rollback(table, filing)]

(***************************************************************************)
(* The ten checklist conditions as the specification states them, and the  *)
(* names of those an input does not meet (recorded in omegaGiven).         *)
(***************************************************************************)
CheckNames ==
    << "claim_object_valid", "narrative_not_empty", "narrative_minimum_length",
       "case_id_present", "alert_ids_present", "subject_complete",
       "risk_assessment_present", "patterns_documented", "evidence_present",
       "integrity_hashes_valid" >>

ViolatedConditions(raw_claim, narrative) ==
    LET met == [ claim_object_valid       |-> ~raw_claim.empty /\ ClaimObjectValid(raw_claim),
                 narrative_not_empty      |-> narrative.length > 0 /\ narrative.nonspace > 0,
                 narrative_minimum_length |-> narrative.length >= NARRATIVE_MIN_LENGTH,
                 case_id_present          |-> Len(raw_claim.case_id) > 0,
                 alert_ids_present        |-> raw_claim.alert_ids >= 1,
                 subject_complete         |-> raw_claim.has_subject,
                 risk_assessment_present  |-> raw_claim.typologies >= 1,
                 patterns_documented      |-> raw_claim.suspicious_patterns >= 1,
                 evidence_present         |-> raw_claim.evidence_set >= 1,
                 integrity_hashes_valid   |-> /\ raw_claim.input_hash_len > 0
                                              /\ raw_claim.full_chain_hash_len > 0
                                              /\ raw_claim.output_hash_len = 64
                                              /\ raw_claim.output_hash_hex ]
    IN  { CheckNames[i] : i \in { k \in 1..Len(CheckNames) : ~met[CheckNames[k]] } }

\* a call of finalize with arguments from the given sets, while the table
\* holds fewer than limit rows
FinalizeFrom(case_ids, raw_claims, narratives, filing_numbers, limit) ==
    /\ Len(filings) < limit
    /\ \E case_id \in case_ids, raw_claim \in raw_claims,
          narrative \in narratives, filing_number \in filing_numbers,
          user_id \in UserIds, dbOk \in BOOLEAN :
          LET r == FinalizeResult(filings, utcYear, case_id, raw_claim, narrative,
                                  filing_number, user_id, dbOk)
          IN  /\ omegaOut' = r.out
              /\ filings' = r.table
              /\ omegaGiven' = ViolatedConditions(raw_claim, narrative)
              /\ filingGiven' = [ case_id       |-> case_id,
                                  filing_number |-> filing_number,
                                  year          |-> utcYear,
                                  db_ok         |-> dbOk ]
    /\ UNCHANGED <<utcYear, hashVars, genVars, storeVars, auditVars, ruleVars, logVars, narrVars>>

Finalize ==
    FinalizeFrom(CaseIds \cup {<<>>}, RawClaims, Narratives, SuppliedFilingNumbers, MaxFilings)

\* finalize called for one case after another, over the years
Refile ==
    FinalizeFrom(RefileCaseIds, RefileClaims, RefileNarratives, RefileFilingNumbers,
                 MaxRefilings)

\* datetime.utcnow().year moves on
NewYear ==
    /\ utcYear < MaxYears
    /\ utcYear' = utcYear + 1
    /\ UNCHANGED <<filings, omegaOut, omegaGiven, filingGiven,
                   hashVars, genVars, storeVars, auditVars, ruleVars, logVars, narrVars>>

\* a direct call of _run_regulatory_validation(claim: ClaimObject, narrative: str)
Validate ==
    /\ \E claim \in ClaimObjects, narrative \in Narratives :
          /\ omegaOut' = [ kind               |-> "validated",
                           claim              |-> claim,
                           narrative          |-> narrative,
                           validation_results |-> RunRegulatoryValidation(claim, narrative) ]
          /\ omegaGiven' = ViolatedConditions(claim, narrative)
    /\ UNCHANGED <<filings, utcYear, filingGiven, hashVars, genVars, storeVars, auditVars, ruleVars, logVars, narrVars>>

NextOmega == Finalize \/ Validate

NextFilings == Refile \/ NewYear

(***************************************************************************)
(* Python values handed to json.dumps.  Every value is a record            *)
(* [t, s, n, items]: t is the Python type, s the text of a str (or the     *)
(* repr of a float), n the number of an int, bool or datetime, items the   *)
(* elements of a list or the (key, value) pairs of a dict in insertion     *)
(* order.                                                                  *)
(***************************************************************************)
PyStr(s)      == [t |-> "str",      s |-> s,  n |-> 0, items |-> <<>>]
PyInt(n)      == [t |-> "int",      s |-> "", n |-> n, items |-> <<>>]
PyFloat(repr) == [t |-> "float",    s |-> repr, n |-> 0, items |-> <<>>]
PyBool(b)     == [t |-> "bool",     s |-> "", n |-> IF b THEN 1 ELSE 0, items |-> <<>>]
PyDatetime(n) == [t |-> "datetime", s |-> "", n |-> n, items |-> <<>>]
PyList(items) == [t |-> "list",     s |-> "", n |-> 0, items |-> items]
PyDict(items) == [t |-> "dict",     s |-> "", n |-> 0, items |-> items]
PyNone        == [t |-> "none",     s |-> "", n |-> 0, items |-> <<>>]

\* bool(value)
PyTruthy(v) ==
    CASE v.t = "none"           -> FALSE
      [] v.t = "str"            -> v.s # ""
      [] v.t \in {"int", "bool"} -> v.n # 0
      [] v.t \in {"list", "dict"} -> v.items # <<>>
      [] OTHER                  -> TRUE

\* key in d, d.get(key, default), d[key] = value, d.pop(key, None)
DictHas(d, key) == \E i \in 1..Len(d.items) : d.items[i][1] = key

DictGet(d, key, default) ==
    IF DictHas(d, key)
    THEN d.items[CHOOSE i \in 1..Len(d.items) : d.items[i][1] = key][2]
    ELSE default

DictSet(d, key, value) ==
    IF DictHas(d, key)
    THEN PyDict([i \in 1..Len(d.items) |->
                    IF d.items[i][1] = key THEN <<key, value>> ELSE d.items[i]])
    ELSE PyDict(Append(d.items, <<key, value>>))

DictPop(d, key) == PyDict(SelectSeq(d.items, LAMBDA kv : kv[1] # key))

\* str(datetime) and datetime.isoformat() of the n-th second of 2024-01-01
DatetimeStr(n) == "2024-01-01 00:00:0" \o ToString(n)
IsoFormat(n)   == "2024-01-01T00:00:0" \o ToString(n)

\* every dict key of the model, in the order Python sorts str keys
KeyOrder ==
    << "a", "accounts", "alert_ids", "approvals", "audit_trail", "b",
       "case_id", "claim_id", "customer", "customer_hash", "customer_id",
       "data_lineage_hash", "detection_logic", "edits_history",
       "environment", "evidence_id", "evidence_refs", "evidence_set",
       "fraud_hash", "full_chain_hash", "generation_trace", "hash",
       "input_hash", "integrity_hashes", "j", "jurisdiction", "k", "kyc",
       "llm", "llm_prompt", "model_scores", "model_version",
       "onboarding_date", "opening_date", "output_hash", "overall_risk_score",
       "pattern_type", "pii_detected", "pii_redacted", "pipeline_transforms",
       "regulatory_hooks", "risk_assessment", "rules", "rules_hash",
       "rules_matched", "security_controls", "severity_band", "stage",
       "status", "subject", "summary", "suspicious_patterns", "temperature",
       "timestamp", "timestamp_created", "timestamp_last_updated",
       "typologies", "user_id", "version" >>

\* the pairs of a dict in sorted key order (json.dumps sort_keys=True)
RECURSIVE PairsInOrder(_, _)
PairsInOrder(items, keys) ==
    IF keys = <<>> THEN <<>>
    ELSE SelectSeq(items, LAMBDA kv : kv[1] = Head(keys)) \o PairsInOrder(items, Tail(keys))

\* mutant of SortKeys: the pairs are serialised in insertion order
KeepInsertionOrder(items) == items

SortKeys(items) == PairsInOrder(items, KeyOrder)

Quote(s) == "\"" \o s \o "\""

\* json.dumps(value, sort_keys=True, default=str): a datetime is not JSON
\* serialisable, so default=str replaces it by str(value), dumped as a string
RECURSIVE JsonDumps(_)
RECURSIVE DumpElements(_)
RECURSIVE DumpPairs(_)
JsonDumps(v) ==
    CASE v.t = "str"      -> Quote(v.s)
      [] v.t = "int"      -> ToString(v.n)
      [] v.t = "float"    -> v.s
      [] v.t = "bool"     -> IF v.n = 1 THEN "true" ELSE "false"
      [] v.t = "none"     -> "null"
      [] v.t = "datetime" -> Quote(DatetimeStr(v.n))
      [] v.t = "list"     -> "[" \o DumpElements(v.items) \o "]"
      [] v.t = "dict"     -> "{" \o DumpPairs(SortKeys(v.items)) \o "}"

DumpElements(items) ==
    IF items = <<>> THEN ""
    ELSE JsonDumps(Head(items))
             \o (IF Len(items) > 1 THEN ", " ELSE "") \o DumpElements(Tail(items))

DumpPairs(items) ==
    IF items = <<>> THEN ""
    ELSE Quote(Head(items)[1]) \o ": " \o JsonDumps(Head(items)[2])
             \o (IF Len(items) > 1 THEN ", " ELSE "") \o DumpPairs(Tail(items))

(***************************************************************************)
(* hash_utils.  SHA-256 is taken to be collision free: a digest is kept    *)
(* as the text it was computed from.                                       *)
(***************************************************************************)
compute_sha256(data) == "sha256<" \o data \o ">"

compute_dict_hash(data) == compute_sha256(JsonDumps(data))

\* sorted(alert_ids): the alert ids of the model in the order Python sorts them
AlertOrder == << "A1", "A2" >>

RECURSIVE SortedStrs(_, _)
SortedStrs(strs, order) ==
    IF order = <<>> THEN <<>>
    ELSE SelectSeq(strs, LAMBDA x : x.s = Head(order)) \o SortedStrs(strs, Tail(order))

RECURSIVE ConcatHashes(_)
ConcatHashes(transforms) ==
    IF transforms = <<>> THEN ""
    ELSE DictGet(Head(transforms), "hash", PyStr("")).s \o ConcatHashes(Tail(transforms))

compute_pipeline_chain_hash(transforms) ==
    IF transforms.items = <<>> THEN compute_sha256("")
    ELSE compute_sha256(ConcatHashes(transforms.items))

compute_data_lineage_hash(case_id, alert_ids, customer_data) ==
    compute_dict_hash(PyDict(<<
        <<"case_id", case_id>>,
        <<"alert_ids", PyList(SortedStrs(alert_ids.items, AlertOrder))>>,
        <<"customer_hash", PyStr(compute_dict_hash(customer_data))>> >>))

compute_claim_input_hash(case_id, alert_ids, customer_data, rule_results, fraud_scores) ==
    compute_dict_hash(PyDict(<<
        <<"case_id", case_id>>,
        <<"alert_ids", PyList(SortedStrs(alert_ids.items, AlertOrder))>>,
        <<"customer_hash", PyStr(compute_dict_hash(customer_data))>>,
        <<"rules_hash", PyStr(compute_dict_hash(rule_results))>>,
        <<"fraud_hash", PyStr(compute_dict_hash(fraud_scores))>> >>))

\* the copy of the claim without its integrity_hashes section is hashed
\* the hash of the whole claim, the integrity_hashes section included
HashWithIntegritySection(claim_object) == compute_dict_hash(claim_object)

compute_claim_output_hash(claim_object) ==
    compute_dict_hash(DictPop(claim_object, "integrity_hashes"))

\* the digest of the three hashes concatenated output first
ChainHashOutputFirst(input_hash, output_hash, pipeline_hash) ==
    compute_sha256(output_hash \o input_hash \o pipeline_hash)

compute_full_chain_hash(input_hash, output_hash, pipeline_hash) ==
    compute_sha256(input_hash \o output_hash \o pipeline_hash)

\* dictionaries hashed by the model: key "a" holds a leaf, key "b" a leaf or
\* a nested dictionary, in either insertion order at both levels
HashLeaves == { PyStr("x"), PyInt(1), PyDatetime(1), PyStr(DatetimeStr(1)) }

NestedLeaves == { PyInt(1), PyDatetime(1) }

NestedDicts ==
    { PyDict(<< <<ks[1], v1>>, <<ks[2], v2>> >>) :
        ks \in { <<"j", "k">>, <<"k", "j">> }, v1 \in NestedLeaves, v2 \in NestedLeaves }

HashDicts ==
    { PyDict(<< <<"a", va>>, <<"b", vb>> >>) : va \in HashLeaves, vb \in HashLeaves \cup NestedDicts }
    \cup { PyDict(<< <<"b", vb>>, <<"a", va>> >>) : va \in HashLeaves, vb \in HashLeaves \cup NestedDicts }

ComputeDictHash ==
    /\ hashOut.kind = "none"
    /\ hashOut' = [ kind   |-> "hashed",
                    first  |-> compute_dict_hash(hashData),
                    second |-> compute_dict_hash(hashOther) ]
    /\ UNCHANGED <<hashData, hashOther, omegaVars, genVars, storeVars, auditVars, ruleVars, logVars, narrVars>>

(***************************************************************************)
(* claim_population and generate_claim.  Each section keeps the fields the *)
(* model varies; a field the code copies from its input or sets to a fixed *)
(* default is kept where it enters a hash or a validation.                 *)
(***************************************************************************)
Instants == 0..9

\* datetime.fromisoformat of a text written by isoformat
FromIsoFormat(text) == PyDatetime(CHOOSE n \in Instants : IsoFormat(n) = text.s)

\* datetime.utcnow().isoformat()
UtcNowIso(now) == PyStr(IsoFormat(now))

populate_subject(customer_data, now) ==
    LET kyc_data == DictGet(customer_data, "kyc", PyDict(<<>>))
        kyc == PyDict(<<
                 <<"onboarding_date",
                   FromIsoFormat(DictGet(kyc_data, "onboarding_date", UtcNowIso(now)))>> >>)
        customer == PyDict(<<
                 <<"customer_id", DictGet(customer_data, "customer_id", PyStr(""))>>,
                 <<"kyc", kyc>> >>)
        Account(acc_data) == PyDict(<<
                 <<"opening_date",
                   FromIsoFormat(DictGet(acc_data, "opening_date", UtcNowIso(now)))>> >>)
        acc_list == DictGet(customer_data, "accounts", PyList(<<>>)).items
        accounts == [i \in 1..Len(acc_list) |-> Account(acc_list[i])]
    IN  PyDict(<< <<"customer", customer>>, <<"accounts", PyList(accounts)>> >>)

populate_pipeline_transforms(transforms_data, now) ==
    LET PipelineTransform(tf_data) == PyDict(<<
            <<"stage", DictGet(tf_data, "stage", PyStr(""))>>,
            <<"timestamp", FromIsoFormat(DictGet(tf_data, "timestamp", UtcNowIso(now)))>>,
            <<"hash", DictGet(tf_data, "hash", PyStr(""))>> >>)
    IN  [i \in 1..Len(transforms_data.items) |-> PipelineTransform(transforms_data.items[i])]

\* a validator that accepts every object
AcceptAll(object) == TRUE

\* PipelineTransform.hash: min_length = max_length = 64
TransformsValid(transforms) ==
    \A i \in 1..Len(transforms) : Len(DictGet(transforms[i], "hash", PyStr("")).s) = 64

populate_suspicious_patterns(patterns_data) ==
    LET SuspiciousPattern(pattern_data) == PyDict(<<
            <<"summary", DictGet(pattern_data, "summary", PyStr(""))>>,
            <<"pattern_type", DictGet(pattern_data, "pattern_type", PyStr(""))>> >>)
    IN  [i \in 1..Len(patterns_data.items) |-> SuspiciousPattern(patterns_data.items[i])]

populate_evidence_set(evidence_data, now) ==
    LET Evidence(ev_data) == PyDict(<<
            <<"evidence_id", DictGet(ev_data, "evidence_id", PyStr(""))>>,
            <<"timestamp", FromIsoFormat(DictGet(ev_data, "timestamp", UtcNowIso(now)))>> >>)
    IN  [i \in 1..Len(evidence_data.items) |-> Evidence(evidence_data.items[i])]

populate_detection_logic(rule_results, fraud_scores) ==
    PyDict(<< <<"rules_matched", PyList(<<>>)>>, <<"model_scores", PyList(<<>>)>> >>)

populate_risk_assessment(risk_data) ==
    PyDict(<<
        <<"overall_risk_score", DictGet(risk_data, "overall_risk_score", PyFloat("0.0"))>>,
        <<"typologies", DictGet(risk_data, "typologies", PyList(<<>>))>>,
        <<"severity_band", DictGet(risk_data, "severity_band", PyStr("low"))>> >>)

populate_generation_trace(llm_data) ==
    PyDict(<<
        <<"llm_prompt", DictGet(llm_data, "prompt", PyStr(""))>>,
        <<"temperature", DictGet(llm_data, "temperature", PyFloat("0.7"))>> >>)

populate_security_controls(pii_data) ==
    PyDict(<<
        <<"pii_detected", DictGet(pii_data, "pii_detected", PyInt(0))>>,
        <<"pii_redacted", DictGet(pii_data, "pii_redacted", PyInt(0))>> >>)

populate_integrity_hashes(input_hash, output_hash, pipeline_hash) ==
    PyDict(<<
        <<"input_hash", PyStr(input_hash)>>,
        <<"output_hash", PyStr(output_hash)>>,
        <<"full_chain_hash",
          PyStr(compute_full_chain_hash(input_hash, output_hash, pipeline_hash))>> >>)

_get_default_llm_metadata ==
    PyDict(<< <<"prompt", PyStr("")>>, <<"temperature", PyFloat("0.7")>> >>)

_get_default_pii_controls ==
    PyDict(<< <<"pii_detected", PyInt(0)>>, <<"pii_redacted", PyInt(0)>> >>)

\* _validate_inputs without the loop over the required fields
ValidateInputsNoFields(case_id, alert_ids, customer_data) ==
    CASE ~PyTruthy(case_id)       -> "case_id is required and cannot be empty"
      [] ~PyTruthy(alert_ids)     -> "At least one alert_id is required"
      [] ~PyTruthy(customer_data) -> "customer_data is required and cannot be empty"
      [] OTHER -> NoneVal

\* the message _validate_inputs raises with, or None
ValidateInputsError(case_id, alert_ids, customer_data) ==
    CASE ~PyTruthy(case_id)       -> "case_id is required and cannot be empty"
      [] ~PyTruthy(alert_ids)     -> "At least one alert_id is required"
      [] ~PyTruthy(customer_data) -> "customer_data is required and cannot be empty"
      [] ~DictHas(customer_data, "customer_id") -> "customer_data missing required field: customer_id"
      [] ~DictHas(customer_data, "kyc")         -> "customer_data missing required field: kyc"
      [] ~DictHas(customer_data, "accounts")    -> "customer_data missing required field: accounts"
      [] OTHER -> NoneVal

EnvironmentEnum == { "on-prem", "aws", "multi-cloud" }

\* model_dump(mode="json"): a datetime becomes its isoformat text
RECURSIVE JsonMode(_)
JsonMode(v) ==
    CASE v.t = "datetime" -> PyStr(IsoFormat(v.n))
      [] v.t = "list"     -> PyList([i \in 1..Len(v.items) |-> JsonMode(v.items[i])])
      [] v.t = "dict"     -> PyDict([i \in 1..Len(v.items) |->
                                        <<v.items[i][1], JsonMode(v.items[i][2])>>])
      [] OTHER            -> v

\* ClaimObject(**claim_dict): the fields in the order the schema declares
\* them, the ones claim_dict does not give set to their defaults; created
\* and updated are the two readings of datetime.utcnow the default
\* factories of the timestamps take
ClaimObject(claim_dict, uuid, created, updated) ==
    LET g(key) == DictGet(claim_dict, key, PyNone)
    IN  PyDict(<<
          <<"claim_id", PyStr(uuid)>>,
          <<"case_id", g("case_id")>>,
          <<"alert_ids", g("alert_ids")>>,
          <<"version", PyStr("1.0")>>,
          <<"timestamp_created", PyDatetime(created)>>,
          <<"timestamp_last_updated", PyDatetime(updated)>>,
          <<"stage", PyStr("claim_generation")>>,
          <<"status", PyStr("draft")>>,
          <<"environment", g("environment")>>,
          <<"jurisdiction", g("jurisdiction")>>,
          <<"model_version", g("model_version")>>,
          <<"user_id", g("user_id")>>,
          <<"data_lineage_hash", g("data_lineage_hash")>>,
          <<"subject", g("subject")>>,
          <<"pipeline_transforms", g("pipeline_transforms")>>,
          <<"suspicious_patterns", g("suspicious_patterns")>>,
          <<"evidence_set", g("evidence_set")>>,
          <<"detection_logic", g("detection_logic")>>,
          <<"risk_assessment", g("risk_assessment")>>,
          <<"regulatory_hooks", g("regulatory_hooks")>>,
          <<"generation_trace", g("generation_trace")>>,
          <<"audit_trail", g("audit_trail")>>,
          <<"security_controls", g("security_controls")>>,
          <<"integrity_hashes", g("integrity_hashes")>> >>)

\* the field constraints and model validators of ClaimObject that the
\* inputs of the model can violate
\* ClaimObject.validate_pii_redaction
validate_pii_redaction(claim_object) ==
    LET sc == DictGet(claim_object, "security_controls", PyNone)
    IN  ~(DictGet(sc, "pii_redacted", PyNone).n > DictGet(sc, "pii_detected", PyNone).n)

\* ClaimObject.validate_timestamps
validate_timestamps(claim_object) ==
    ~(DictGet(claim_object, "timestamp_last_updated", PyNone).n
          < DictGet(claim_object, "timestamp_created", PyNone).n)

ClaimDictValid(claim_object) ==
    /\ DictGet(claim_object, "environment", PyNone).s \in EnvironmentEnum
    /\ validate_pii_redaction(claim_object)
    /\ validate_timestamps(claim_object)

\* the steps of generate_claim in the order the code takes them
GenerateSteps ==
    << "defaults", "validate_inputs", "compute_hashes", "populate_sections",
       "assemble", "output_hash", "integrity_hashes", "ClaimObject", "model_dump" >>

\* raise ClaimGenerationError(...) from e, e raised by step number failed_at;
\* hashed is the dictionary output_hash was computed over, if it was
ClaimGenerationError(msg, cause, failed_at) ==
    [kind |-> "raised", exception |-> "ClaimGenerationError",
     error |-> "Failed to generate claim: " \o msg, cause |-> cause,
     steps |-> SubSeq(GenerateSteps, 1, failed_at - 1), hashed |-> PyNone, claim |-> PyNone]

\* generate_claim; jurisdiction, user_id, model_versions, llm_metadata and
\* rbac_roles are left at their defaults
GenerateClaimResult(case_id, alert_ids, customer_data, pipeline_transforms, rule_results, fraud_scores, rag_results, environment, pii_arg, now, created, updated, uuid) ==
    LET jurisdiction == PyList(<<PyStr("UK")>>)
        model_versions == PyDict(<< <<"llm", PyStr("llama-3.1-8b-instant")>>,
                                    <<"rules", PyStr("v1.0")>> >>)
        llm_metadata == _get_default_llm_metadata
        pii_controls == IF PyTruthy(pii_arg) THEN pii_arg ELSE _get_default_pii_controls
        invalid == ValidateInputsError(case_id, alert_ids, customer_data)
        input_hash == compute_claim_input_hash(case_id, alert_ids, customer_data,
                                               rule_results, fraud_scores)
        data_lineage_hash == compute_data_lineage_hash(case_id, alert_ids, customer_data)
        pipeline_hash == compute_pipeline_chain_hash(pipeline_transforms)
        subject == populate_subject(customer_data, now)
        transforms == populate_pipeline_transforms(pipeline_transforms, now)
        suspicious_patterns ==
            populate_suspicious_patterns(DictGet(rule_results, "suspicious_patterns", PyList(<<>>)))
        evidence_set ==
            populate_evidence_set(DictGet(rule_results, "evidence_refs", PyList(<<>>)), now)
        detection_logic == populate_detection_logic(rule_results, fraud_scores)
        risk_assessment ==
            populate_risk_assessment(DictGet(fraud_scores, "risk_assessment", PyDict(<<>>)))
        generation_trace == populate_generation_trace(llm_metadata)
        security_controls == populate_security_controls(pii_controls)
        claim_dict == PyDict(<<
            <<"case_id", case_id>>,
            <<"alert_ids", alert_ids>>,
            <<"environment", environment>>,
            <<"jurisdiction", jurisdiction>>,
            <<"model_version", model_versions>>,
            <<"user_id", PyStr("system")>>,
            <<"data_lineage_hash", PyStr(data_lineage_hash)>>,
            <<"subject", subject>>,
            <<"pipeline_transforms", PyList(transforms)>>,
            <<"suspicious_patterns", PyList(suspicious_patterns)>>,
            <<"evidence_set", PyList(evidence_set)>>,
            <<"detection_logic", detection_logic>>,
            <<"risk_assessment", risk_assessment>>,
            <<"regulatory_hooks", PyList(<<>>)>>,
            <<"generation_trace", generation_trace>>,
            <<"audit_trail", PyDict(<< <<"edits_history", PyList(<<>>)>>,
                                       <<"approvals", PyList(<<>>)>> >>)>>,
            <<"security_controls", security_controls>>,
            <<"integrity_hashes", PyDict(<< <<"input_hash", PyStr(input_hash)>>,
                                            <<"output_hash", PyStr("")>>,
                                            <<"full_chain_hash", PyStr("")>> >>)>> >>)
        output_hash == compute_claim_output_hash(claim_dict)
        integrity_hashes == populate_integrity_hashes(input_hash, output_hash, pipeline_hash)
        hashed_dict == DictSet(claim_dict, "integrity_hashes", integrity_hashes)
        claim_object == ClaimObject(hashed_dict, uuid, created, updated)
    IN  IF invalid # NoneVal THEN ClaimGenerationError(invalid, "ValueError", 2)
        ELSE IF ~TransformsValid(transforms)
        THEN ClaimGenerationError("1 validation error for PipelineTransform",
                                  "ValidationError", 4)
        ELSE IF ~ClaimDictValid(claim_object)
        THEN ClaimGenerationError("1 validation error for ClaimObject",
                                  "ValidationError", 8)
        ELSE [kind |-> "returned", exception |-> NoneVal, error |-> NoneVal,
              cause |-> NoneVal, steps |-> GenerateSteps, hashed |-> claim_dict,
              claim |-> JsonMode(claim_object)]

\* the arguments the model calls generate_claim with
GenCaseIds == { PyStr(""), PyStr("CASE-1") }

GenAlertIds == { PyList(<<>>), PyList(<<PyStr("A1")>>), PyList(<<PyStr("A2"), PyStr("A1")>>) }

FullCustomer ==
    PyDict(<< <<"customer_id", PyStr("CUST-1")>>,
              <<"kyc", PyDict(<< <<"onboarding_date", PyStr(IsoFormat(1))>> >>)>>,
              <<"accounts", PyList(<< PyDict(<< <<"opening_date", PyStr(IsoFormat(2))>> >>) >>)>> >>)

CustomerDatas ==
    { PyDict(<<>>),
      FullCustomer,
      DictSet(DictSet(FullCustomer, "kyc", PyDict(<<>>)), "accounts", PyList(<<>>)),
      DictPop(FullCustomer, "accounts") }

HexDigest64 == "0123456789abcdef0123456789abcdef0123456789abcdef0123456789abcdef"

TransformLists ==
    { PyList(<<>>),
      PyList(<< PyDict(<< <<"stage", PyStr("alpha")>>, <<"hash", PyStr(HexDigest64)>> >>) >>),
      PyList(<< PyDict(<< <<"stage", PyStr("alpha")>>, <<"hash", PyStr("abc123")>> >>) >>) }

RuleResults ==
    { PyDict(<<>>),
      PyDict(<< <<"suspicious_patterns",
                  PyList(<< PyDict(<< <<"pattern_type", PyStr("structuring")>> >>) >>)>>,
                <<"evidence_refs",
                  PyList(<< PyDict(<< <<"evidence_id", PyStr("E1")>> >>) >>)>> >>) }

FraudScores ==
    { PyDict(<<>>),
      PyDict(<< <<"risk_assessment",
                  PyDict(<< <<"overall_risk_score", PyFloat("82.5")>>,
                            <<"typologies", PyList(<<PyStr("structuring")>>)>>,
                            <<"severity_band", PyStr("high")>> >>)>> >>) }

Environments == { PyStr("on-prem"), PyStr("moon") }

PiiControls ==
    { PyNone,
      PyDict(<< <<"pii_detected", PyInt(2)>>, <<"pii_redacted", PyInt(2)>> >>),
      PyDict(<< <<"pii_detected", PyInt(1)>>, <<"pii_redacted", PyInt(2)>> >>) }

\* the reading of the clock the populate_* defaults take
PopulateNows == { 3 }

\* the readings the timestamp default factories take; the wall clock can be
\* set back between two readings
UtcNows == { 3, 4 }

Uuids == { "claim-1" }

GenerateClaim ==
    /\ genOut.kind = "none"
    /\ \E case_id \in GenCaseIds, alert_ids \in GenAlertIds, customer_data \in CustomerDatas,
          pipeline_transforms \in TransformLists, rule_results \in RuleResults,
          fraud_scores \in FraudScores, environment \in Environments,
          pii_controls \in PiiControls, now \in PopulateNows, created \in UtcNows,
          updated \in UtcNows, uuid \in Uuids :
          /\ genOut' = GenerateClaimResult(case_id, alert_ids, customer_data,
                                           pipeline_transforms, rule_results, fraud_scores,
                                           PyDict(<<>>), environment, pii_controls,
                                           now, created, updated, uuid)
          /\ genGiven' = [ case_id             |-> case_id,
                           alert_ids           |-> alert_ids,
                           customer_data       |-> customer_data,
                           pipeline_transforms |-> pipeline_transforms,
                           rule_results        |-> rule_results,
                           fraud_scores        |-> fraud_scores,
                           environment         |-> environment,
                           pii_controls        |-> pii_controls ]
    /\ UNCHANGED <<rehashOut, omegaVars, hashVars, storeVars, auditVars, ruleVars, logVars, narrVars>>

\* what the integrity_hashes section of a copy of the claim is replaced by;
\* None stands for a copy without the section
IntegrityVariants ==
    { PyNone,
      PyDict(<<>>),
      PyDict(<< <<"input_hash", PyStr("")>>, <<"output_hash", PyStr("")>>,
                <<"full_chain_hash", PyStr("")>> >>),
      PyDict(<< <<"input_hash", PyStr(HexDigest64)>>, <<"output_hash", PyStr(HexDigest64)>>,
                <<"full_chain_hash", PyStr(HexDigest64)>> >>) }

WithIntegrityHashes(claim, section) ==
    IF section = PyNone THEN DictPop(claim, "integrity_hashes")
    ELSE DictSet(claim, "integrity_hashes", section)

\* compute_claim_output_hash called on the returned claim and on a copy that
\* differs from it in the integrity_hashes section only
RecomputeOutputHash ==
    /\ genOut.kind = "returned"
    /\ rehashOut.kind = "none"
    /\ \E section \in IntegrityVariants :
          rehashOut' = [ kind    |-> "rehashed",
                         other   |-> WithIntegrityHashes(genOut.claim, section),
                         first   |-> compute_claim_output_hash(genOut.claim),
                         second  |-> compute_claim_output_hash(
                                        WithIntegrityHashes(genOut.claim, section)) ]
    /\ UNCHANGED <<genOut, genGiven, omegaVars, hashVars, storeVars, auditVars, ruleVars, logVars, narrVars>>

(***************************************************************************)
(* claim_storage.  A claim object handed to the storage is the record of   *)
(* its claim_id, status, timestamp_last_updated and body, the body         *)
(* standing for all its other sections.  The claims table maps a claim_id  *)
(* to its row.                                                             *)
(***************************************************************************)
StoredClaimIds == { "claim-1", "claim-2" }

StatusEnum == { "draft", "approved" }

ClaimBodies == { "sections-A", "sections-B" }

\* the claim objects callers save
SavedClaimObjects ==
    [ claim_id : StoredClaimIds, status : StatusEnum,
      timestamp_last_updated : { IsoFormat(1) }, body : ClaimBodies ]

StoreNows == { 3 }

ClaimStorageError(msg) == [kind |-> "raised", exception |-> "ClaimStorageError", error |-> msg]

\* save_claim: the row of an existing claim_id is overwritten in place, a new
\* claim_id gets a new row; the claim_audit_log entry is added after the commit
SaveClaimResult(table, claim_object, user, now, dbOk) ==
    LET claim_id == claim_object.claim_id
        exists == claim_id \in DOMAIN table
        action == IF exists THEN "UPDATED" ELSE "CREATED"
        row == IF exists
               THEN [ table[claim_id] EXCEPT !.timestamp_last_updated = IsoFormat(now),
                                             !.status = claim_object.status,
                                             !.claim_data = claim_object ]
               ELSE [ claim_id               |-> claim_id,
                      timestamp_last_updated |-> claim_object.timestamp_last_updated,
                      status                 |-> claim_object.status,
                      claim_data             |-> claim_object ]
    IN  IF ~dbOk
        THEN [ out |-> ClaimStorageError("Failed to save claim"), table |-> table ]
        ELSE [ out   |-> [ kind |-> "saved", claim_id |-> claim_id,
                           audit_entry |-> [ claim_id |-> claim_id, action |-> action,
                                             actor_id |-> user ] ],
               table |-> [ id \in DOMAIN table \cup {claim_id} |->
                              IF id = claim_id THEN row ELSE table[id] ] ]

\* update_claim_status: the status column is set and the loaded claim_data
\* dict is mutated and assigned back; the ORM writes the mutated JSON only when
\* it detects the change (tracked)
UpdateClaimStatusResult(table, claim_id, new_status, user_id, now, tracked, dbOk) ==
    IF claim_id \notin DOMAIN table
    THEN [ out |-> ClaimStorageError("Failed to update claim status: Claim not found"),
           table |-> table ]
    ELSE IF ~dbOk
    THEN [ out |-> ClaimStorageError("Failed to update claim status"), table |-> table ]
    ELSE LET claim_db == table[claim_id]
             claim_data == [ claim_db.claim_data EXCEPT
                                !.status = new_status,
                                !.timestamp_last_updated = IsoFormat(now) ]
             row == [ claim_db EXCEPT
                        !.status = new_status,
                        !.timestamp_last_updated = IsoFormat(now),
                        !.claim_data = IF tracked THEN claim_data ELSE claim_db.claim_data ]
         IN  [ out   |-> [ kind |-> "updated", claim_id |-> claim_id,
                           audit_entry |-> [ claim_id |-> claim_id,
                                             action |-> "STATUS_CHANGED",
                                             actor_id |-> user_id ] ],
               table |-> [ table EXCEPT ![claim_id] = row ] ]

SaveClaim ==
    \E claim_object \in SavedClaimObjects, user \in UserIds, now \in StoreNows, dbOk \in BOOLEAN :
        LET r == SaveClaimResult(claims, claim_object, user, now, dbOk)
        IN  /\ claims' = r.table
            /\ storeOut' = r.out
            /\ firstSaved' = IF r.out.kind = "saved" /\ claim_object.claim_id \notin DOMAIN firstSaved
                             THEN [ id \in DOMAIN firstSaved \cup {claim_object.claim_id} |->
                                       IF id = claim_object.claim_id THEN claim_object
                                       ELSE firstSaved[id] ]
                             ELSE firstSaved
            /\ UNCHANGED <<omegaVars, hashVars, genVars, auditVars, ruleVars, logVars, narrVars>>

UpdateClaimStatus ==
    \E claim_id \in StoredClaimIds, new_status \in StatusEnum, user_id \in UserIds,
       now \in StoreNows, tracked \in BOOLEAN, dbOk \in BOOLEAN :
        LET r == UpdateClaimStatusResult(claims, claim_id, new_status, user_id, now, tracked, dbOk)
        IN  /\ claims' = r.table
            /\ storeOut' = r.out
            /\ UNCHANGED <<firstSaved, omegaVars, hashVars, genVars, auditVars, ruleVars, logVars, narrVars>>

\* get_claim
GetClaim(table, claim_id) ==
    IF claim_id \in DOMAIN table THEN table[claim_id].claim_data ELSE NoneVal

(***************************************************************************)
(* audit_service.  The audit_events table is the committed rows followed   *)
(* by the rows the session has flushed and not yet committed; a query of   *)
(* the session sees both.                                                  *)
(***************************************************************************)
AuditCaseIds == { "CASE-1", "CASE-2" }

\* the case_id process_case draws for the case it creates
NewCaseId == "SAR-0123456789AB"

EventTypes == { "CASE_CREATED" }

\* the identity the flush assigns: the next value of the id sequence
AssignedId(nextId) == nextId

\* AuditEvent(...) as AuditService.log builds it
AuditEvent(id, case_id, event_type, event_data, user_id, timestamp) ==
    [ id |-> id, case_id |-> case_id, event_type |-> event_type, event_data |-> event_data,
      user_id |-> user_id, timestamp |-> timestamp, immutable |-> TRUE ]

VisibleRows == auditRows \o auditPending

RowsOfCase(rows, case_id) == SelectSeq(rows, LAMBDA e : e.case_id = case_id)

\* the dict get_trail returns for one event
TrailEntry(e) ==
    [ id |-> e.id, case_id |-> e.case_id, event_type |-> e.event_type,
      event_data |-> e.event_data, user_id |-> e.user_id,
      timestamp |-> IsoFormat(e.timestamp), immutable |-> e.immutable ]

\* ORDER BY timestamp ASC: every arrangement of the rows with non-decreasing
\* timestamps; the order of rows with equal timestamps is not specified
RECURSIVE TimestampOrders(_)
TimestampOrders(rows) ==
    IF rows = <<>> THEN { <<>> }
    ELSE LET n == Len(rows)
             firsts == { i \in 1..n : \A j \in 1..n : rows[i].timestamp <= rows[j].timestamp }
             Without(i) == SubSeq(rows, 1, i - 1) \o SubSeq(rows, i + 1, n)
         IN  UNION { { <<rows[i]>> \o rest : rest \in TimestampOrders(Without(i)) } :
                     i \in firsts }

\* AuditService.log: datetime.now read, row added and flushed, not committed
Log ==
    /\ Len(logged) < MaxEvents
    /\ \E case_id \in AuditCaseIds, event_type \in EventTypes, user_id \in UserIds,
          elapsed \in {0, 1} :
          LET event == AuditEvent(AssignedId(auditNextId), case_id, event_type, "payload",
                                  user_id, auditClock + elapsed)
          IN  /\ auditPending' = Append(auditPending, event)
              /\ auditNextId' = auditNextId + 1
              /\ auditClock' = auditClock + elapsed
              /\ logged' = Append(logged, event)
              /\ auditOut' = [kind |-> "logged", event |-> event]
    /\ UNCHANGED <<caseRun, auditRows, omegaVars, hashVars, genVars, storeVars, ruleVars, logVars, narrVars>>

\* the db.commit() that ends a successful process_case
CommitRun ==
    /\ auditPending # <<>>
    /\ auditRows' = auditRows \o auditPending
    /\ auditPending' = <<>>
    /\ auditOut' = [kind |-> "committed"]
    /\ UNCHANGED <<caseRun, auditNextId, auditClock, logged, omegaVars, hashVars, genVars, storeVars, ruleVars, logVars, narrVars>>

\* ingest_case when process_case raised after logging: db.rollback()
RollbackRun ==
    /\ auditPending # <<>>
    /\ auditPending' = <<>>
    /\ auditOut' = [kind |-> "rolled_back"]
    /\ UNCHANGED <<caseRun, auditRows, auditNextId, auditClock, logged, omegaVars, hashVars, genVars, storeVars, ruleVars, logVars, narrVars>>

GetTrail ==
    /\ \E case_id \in AuditCaseIds \cup {NewCaseId} :
         \E events \in TimestampOrders(RowsOfCase(VisibleRows, case_id)) :
            auditOut' = [ kind    |-> "trail",
                          case_id |-> case_id,
                          rows    |-> RowsOfCase(VisibleRows, case_id),
                          events  |-> [i \in 1..Len(events) |-> TrailEntry(events[i])] ]
    /\ UNCHANGED <<caseRun, auditRows, auditPending, auditNextId, auditClock, logged, omegaVars, hashVars, genVars, storeVars, ruleVars, logVars, narrVars>>

\* AuditService.reconstruct_sentence_reason: one step per event of the
\* trail; the step of a RULES_EVALUATED event lists the rules of its data
\* that triggered
ChainStepAllRules(event) ==
    IF event.event_type = "RULES_EVALUATED"
    THEN [ step |-> event.event_type, timestamp |-> event.timestamp,
           triggered_rules |->
               [i \in 1..Len(event.event_data.triggered_rules) |->
                   event.event_data.triggered_rules[i].rule_name] ]
    ELSE [ step |-> event.event_type, timestamp |-> event.timestamp ]

ChainStep(event) ==
    IF event.event_type = "RULES_EVALUATED"
    THEN [ step |-> event.event_type, timestamp |-> event.timestamp,
           triggered_rules |->
               LET fired == SelectSeq(event.event_data.triggered_rules, LAMBDA r : r.triggered)
               IN  [i \in 1..Len(fired) |-> fired[i].rule_name] ]
    ELSE [ step |-> event.event_type, timestamp |-> event.timestamp ]

ReconstructSentenceReason ==
    /\ \E case_id \in {NewCaseId} :
         \E events \in TimestampOrders(RowsOfCase(VisibleRows, case_id)) :
            LET trail == [i \in 1..Len(events) |-> TrailEntry(events[i])]
            IN  auditOut' = [ kind    |-> "reconstruction",
                              case_id |-> case_id,
                              trail   |-> trail,
                              chain   |-> [i \in 1..Len(trail) |-> ChainStep(trail[i])] ]
    /\ UNCHANGED <<caseRun, auditRows, auditPending, auditNextId, auditClock, logged, omegaVars, hashVars, genVars, storeVars, ruleVars, logVars, narrVars>>

(***************************************************************************)
(* rule_engine.  Amounts are integers; confidences, risk contributions and *)
(* scores are integers in units of 1/10000, the outflow share is in        *)
(* percent.                                                                *)
(***************************************************************************)
THRESHOLDS ==
    [ single_txn_amount |-> 1000000, total_inflow_7d |-> 5000000, velocity_count_7d |-> 30,
      unique_counterparties_7d |-> 20, structuring_band_low |-> 900000,
      structuring_band_high |-> 999999, rapid_outflow_pct |-> 80 ]

HIGH_RISK_JURISDICTIONS ==
    { "AF", "AL", "MM", "PA", "PK", "SY", "YE", "IR", "KP", "VG", "KY", "JE", "GG", "IM",
      "BZ", "SC", "MU", "AE", "HK", "SG" }

\* str.upper() and str.lower() on the texts of the model
Upper(text) == CASE text = "ir" -> "IR" [] text = "in" -> "IN" [] OTHER -> text

Lower(text) == CASE text = "HIGH" -> "high" [] text = "High" -> "high" [] OTHER -> text

RuleResult(rule_name, triggered, confidence, risk_contribution, typology) ==
    [ rule_name         |-> rule_name,
      triggered         |-> triggered,
      confidence        |-> IF triggered THEN confidence ELSE 0,
      risk_contribution |-> IF triggered THEN risk_contribution ELSE 0,
      typology          |-> IF triggered THEN typology ELSE NoneVal ]

RECURSIVE SumAmounts(_)
SumAmounts(transactions) ==
    IF transactions = <<>> THEN 0
    ELSE Head(transactions).amount + SumAmounts(Tail(transactions))

\* threshold_check with the thresholds included
ThresholdAtLeast(agg) ==
    LET single_hit == agg.max_transaction_amount >= THRESHOLDS.single_txn_amount
        total_hit == agg.total_credit >= THRESHOLDS.total_inflow_7d
    IN  RuleResult("threshold_check", single_hit \/ total_hit, 9000, 2500, "high_value_transaction")

_check_threshold(agg) ==
    LET single_hit == agg.max_transaction_amount > THRESHOLDS.single_txn_amount
        total_hit == agg.total_credit > THRESHOLDS.total_inflow_7d
    IN  RuleResult("threshold_check", single_hit \/ total_hit, 9000, 2500, "high_value_transaction")

_check_velocity(agg) ==
    LET count_hit == agg.total_transactions > THRESHOLDS.velocity_count_7d
        cp_hit == agg.unique_counterparties > THRESHOLDS.unique_counterparties_7d
    IN  RuleResult("velocity_check", count_hit \/ cp_hit, 8500, 2000, "rapid_movement")

_check_jurisdiction(transactions) ==
    LET risky_countries ==
            { Upper(transactions[i].counterparty_country) : i \in 1..Len(transactions) }
                \cap HIGH_RISK_JURISDICTIONS
    IN  RuleResult("jurisdiction_check", Cardinality(risky_countries) > 0, 8000, 2000,
                   "high_risk_jurisdiction")

\* structuring_check with the bounds of the band excluded
StructuringInsideBand(transactions) ==
    LET structured == SelectSeq(transactions, LAMBDA t :
                          /\ THRESHOLDS.structuring_band_low < t.amount
                          /\ t.amount < THRESHOLDS.structuring_band_high)
    IN  RuleResult("structuring_check", Len(structured) >= 3, 9000, 2500, "structuring")

_check_structuring(transactions) ==
    LET structured == SelectSeq(transactions, LAMBDA t :
                          /\ THRESHOLDS.structuring_band_low <= t.amount
                          /\ t.amount <= THRESHOLDS.structuring_band_high)
    IN  RuleResult("structuring_check", Len(structured) >= 3, 9000, 2500, "structuring")

_check_layering(transactions, agg) ==
    LET many_sources == agg.unique_counterparties > 10
        total_credit == SumAmounts(SelectSeq(transactions, LAMBDA t : t.type = "credit"))
        total_debit == SumAmounts(SelectSeq(transactions, LAMBDA t : t.type = "debit"))
        rapid_outflow == IF total_credit > 0
                         THEN total_debit * 100 > total_credit * THRESHOLDS.rapid_outflow_pct
                         ELSE FALSE
    IN  RuleResult("layering_check", many_sources /\ rapid_outflow, 8800, 3000, "layering")

_check_rapid_international(transactions) ==
    LET intl_debits == SelectSeq(transactions, LAMBDA t :
                          /\ t.type = "debit"
                          /\ t.counterparty_country # "IN"
                          /\ t.amount > 500000)
    IN  RuleResult("rapid_international_movement", Len(intl_debits) >= 1, 8500, 2000,
                   "rapid_international_movement")

\* ratio = total_credit / annual_income when the income is positive, else 999
_check_professional_facilitation(kyc, agg) ==
    LET annual_income == kyc.annual_income
        total_credit == agg.total_credit
        ratio_over_10 == IF annual_income > 0 THEN total_credit > 10 * annual_income ELSE TRUE
    IN  RuleResult("professional_facilitation", ratio_over_10 /\ total_credit > 1000000,
                   7500, 1500, "professional_facilitation")

_check_predicate_offences(kyc) ==
    LET pep == kyc.pep_status
        sanctions == kyc.sanctions_match
        high_risk == Lower(kyc.risk_rating) = "high"
        triggered == pep \/ sanctions \/ high_risk
    IN  [ rule_name         |-> "predicate_offence_indicators",
          triggered         |-> triggered,
          confidence        |-> IF sanctions THEN 9500 ELSE IF triggered THEN 7000 ELSE 0,
          risk_contribution |-> IF sanctions THEN 3000 ELSE IF triggered THEN 1500 ELSE 0,
          typology          |-> IF triggered THEN "predicate_offences" ELSE NoneVal ]

RECURSIVE SumField(_, _)
SumField(rules, field) ==
    IF rules = <<>> THEN 0 ELSE Head(rules)[field] + SumField(Tail(rules), field)

\* mutant of the clamp of _compute_risk_score: the sum is returned as it is
Unclamped(score) == score

ClampToOne(score) == Min(score, 10000)

_compute_risk_score(triggered, kyc) ==
    IF triggered = <<>> THEN 500
    ELSE ClampToOne(SumField(triggered, "risk_contribution")
                        + (IF kyc.sanctions_match THEN 1500 ELSE 0)
                        + (IF kyc.pep_status THEN 500 ELSE 0))

\* round(total / count, 4) in units of 1/10000, halves to the even neighbour
RoundedMean(total, count) ==
    LET q == total \div count
        r == total % count
    IN  IF 2 * r > count \/ (2 * r = count /\ q % 2 = 1) THEN q + 1 ELSE q

\* the confidences added up and not divided
ConfidenceSum(triggered) == SumField(triggered, "confidence")

_compute_confidence(triggered) ==
    IF triggered = <<>> THEN 0
    ELSE RoundedMean(SumField(triggered, "confidence"), Len(triggered))

\* list(set_of_typologies): the order in which a set of str iterates depends
\* on the hash seed of the interpreter process
TypologyOrders ==
    << << "high_value_transaction", "rapid_movement", "high_risk_jurisdiction", "structuring",
          "layering", "rapid_international_movement", "professional_facilitation",
          "predicate_offences" >>,
       << "predicate_offences", "professional_facilitation", "rapid_international_movement",
          "layering", "structuring", "high_risk_jurisdiction", "rapid_movement",
          "high_value_transaction" >> >>

HashSeeds == 1..Len(TypologyOrders)

ListOfSet(typology_set, seed) == SelectSeq(TypologyOrders[seed], LAMBDA t : t \in typology_set)

\* what kyc.get(...) and agg.get(...) read from an empty dictionary
DefaultKyc ==
    [annual_income |-> 0, pep_status |-> FALSE, sanctions_match |-> FALSE, risk_rating |-> ""]

DefaultAggregates ==
    [ max_transaction_amount |-> 0, total_credit |-> 0,
      total_transactions |-> 0, unique_counterparties |-> 0 ]

\* normalized_data.get(section, default): the sections named in missing are
\* absent from the dictionary
GetSection(normalized_data, section, default) ==
    IF section \in normalized_data.missing THEN default ELSE normalized_data[section]

\* kyc.get("risk_rating", "").lower() is called on the value as given: None
\* has no lower()
EvaluateResult(normalized_data, seed, now) ==
    LET transactions == GetSection(normalized_data, "transactions", <<>>)
        kyc == GetSection(normalized_data, "kyc", DefaultKyc)
        aggregates == GetSection(normalized_data, "aggregates", DefaultAggregates)
    IN  IF kyc.risk_rating = NoneVal
        THEN [ kind |-> "raised", exception |-> "AttributeError", input |-> normalized_data ]
        ELSE
        LET results == << _check_threshold(aggregates),
                          _check_velocity(aggregates),
                          _check_jurisdiction(transactions),
                          _check_structuring(transactions),
                          _check_layering(transactions, aggregates),
                          _check_rapid_international(transactions),
                          _check_professional_facilitation(kyc, aggregates),
                          _check_predicate_offences(kyc) >>
            triggered == SelectSeq(results, LAMBDA r : r.triggered)
            typologies == ListOfSet({ triggered[i].typology : i \in 1..Len(triggered) }, seed)
            risk_score == _compute_risk_score(triggered, kyc)
            confidence_score == _compute_confidence(triggered)
        IN  [ kind               |-> "evaluated",
              input              |-> normalized_data,
              triggered_rules    |-> results,
              risk_score         |-> risk_score,
              confidence_score   |-> confidence_score,
              typologies         |-> typologies,
              claim_object       |-> [ typologies       |-> typologies,
                                       triggered_rules  |-> [i \in 1..Len(triggered) |->
                                                                triggered[i].rule_name],
                                       risk_score       |-> risk_score,
                                       confidence_score |-> confidence_score,
                                       generated_at     |-> IsoFormat(now) ],
              reasoning_artifact |-> [ evaluated_at    |-> IsoFormat(now),
                                       rules_evaluated |-> Len(results),
                                       rules_triggered |-> Len(triggered) ] ]

\* the normalized_data the model evaluates
Txn(amount, type, country) == [amount |-> amount, type |-> type, counterparty_country |-> country]

RuleTransactionLists ==
    { <<>>,
      << Txn(950000, "credit", "IN"), Txn(900000, "credit", "IN"), Txn(999999, "credit", "IN") >>,
      << Txn(899999, "credit", "IN"), Txn(999999, "credit", "IN"), Txn(1000000, "credit", "IN") >>,
      << Txn(600000, "credit", "ir"), Txn(600000, "debit", "AE") >> }

Agg(max_amount, total_credit, total_transactions, unique_counterparties) ==
    [ max_transaction_amount |-> max_amount, total_credit |-> total_credit,
      total_transactions |-> total_transactions, unique_counterparties |-> unique_counterparties ]

RuleAggregates ==
    { Agg(0, 0, 0, 0),
      Agg(1000000, 5000000, 30, 10),
      Agg(1000001, 0, 0, 0),
      Agg(0, 1000001, 0, 11),
      Agg(1000001, 5000001, 31, 21) }

RuleKycs ==
    [ annual_income : {0, 1000000}, pep_status : BOOLEAN, sanctions_match : BOOLEAN,
      risk_rating : {"low", "HIGH", NoneVal} ]

\* a normalized_data with every section, and ones that lack sections (the
\* fields of the sections they lack hold what get() defaults to)
NormalizedDatas ==
    [ transactions : RuleTransactionLists, kyc : RuleKycs, aggregates : RuleAggregates,
      missing : {{}} ]
    \cup [ transactions : RuleTransactionLists, kyc : {DefaultKyc},
           aggregates : RuleAggregates, missing : {{"kyc"}} ]
    \cup [ transactions : RuleTransactionLists, kyc : {DefaultKyc},
           aggregates : {DefaultAggregates}, missing : {{"kyc", "aggregates"}} ]
    \cup [ transactions : {<<>>}, kyc : {DefaultKyc},
           aggregates : {DefaultAggregates}, missing : {{"transactions", "kyc", "aggregates"}} ]

Evaluate ==
    /\ ruleOut.kind = "none"
    /\ \E normalized_data \in NormalizedDatas, elapsed \in {0, 1} :
          /\ ruleOut' = EvaluateResult(normalized_data, hashSeed, ruleClock + elapsed)
          /\ ruleClock' = ruleClock + elapsed
    /\ UNCHANGED <<rulePrev, hashSeed, omegaVars, hashVars, genVars, storeVars, auditVars, logVars, narrVars>>

\* a second call of evaluate with the normalized_data of the first
EvaluateAgain ==
    /\ ruleOut.kind # "none"
    /\ rulePrev.kind = "none"
    /\ \E elapsed \in {0, 1} :
          /\ ruleOut' = EvaluateResult(ruleOut.input, hashSeed, ruleClock + elapsed)
          /\ ruleClock' = ruleClock + elapsed
    /\ rulePrev' = ruleOut
    /\ UNCHANGED <<hashSeed, omegaVars, hashVars, genVars, storeVars, auditVars, logVars, narrVars>>

\* the service is restarted between the two calls: a new interpreter process
\* draws a new hash seed
RestartWorker ==
    /\ ruleOut.kind # "none"
    /\ rulePrev.kind = "none"
    /\ \E seed \in HashSeeds : hashSeed' = seed
    /\ UNCHANGED <<ruleOut, rulePrev, ruleClock, omegaVars, hashVars, genVars, storeVars, auditVars, logVars, narrVars>>

(***************************************************************************)
(* case_orchestrator.  process_case runs its stages in one database        *)
(* session; caseRun.pc is the number of stages done, 7 when the run has    *)
(* committed.  The data of an event is kept as its triggered_rules, the    *)
(* empty list standing for an event whose data has no such key.            *)
(***************************************************************************)
RISK_ALERT_THRESHOLD == 7500

StageEvents ==
    << "CASE_CREATED", "DATA_NORMALIZED", "RULES_EVALUATED", "ML_SCORED",
       "RAG_RETRIEVED", "NARRATIVE_GENERATED" >>

IdleRun ==
    [ pc |-> 0, status |-> "none", committed |-> FALSE, rule_result |-> [kind |-> "none"] ]

\* the normalized data of the cases the model ingests: no rule triggering,
\* a risk score below and one at the alert threshold, and a kyc without a
\* risk rating
CaseNormalizedDatas ==
    { d \in NormalizedDatas :
        /\ d.missing = {}
        /\ d.kyc.annual_income = 0 /\ ~d.kyc.pep_status /\ ~d.kyc.sanctions_match
        /\ \/ d.transactions = <<>> /\ d.aggregates = Agg(0, 0, 0, 0) /\ d.kyc.risk_rating = "low"
           \/ d.transactions = <<>> /\ d.aggregates = Agg(1000001, 5000001, 31, 21)
                 /\ d.kyc.risk_rating \in {"HIGH", NoneVal}
           \/ d.transactions # <<>> /\ d.transactions[1].amount = 600000
                 /\ d.aggregates = Agg(1000000, 5000000, 30, 10) /\ d.kyc.risk_rating = "HIGH" }

\* the clock ticks between an event of the run and the one before it: the
\* model lets the events after the rule evaluation and after the narrative
\* fall into the tick of their predecessor
StageElapsed(stage) == IF stage \in {4, 7} THEN {0, 1} ELSE {1}

\* self.audit.log(case_id, event_type, ...) within the run
LogInRun(event_type, triggered_rules, elapsed) ==
    LET event == AuditEvent(AssignedId(auditNextId), NewCaseId, event_type,
                            [triggered_rules |-> triggered_rules], "system",
                            auditClock + elapsed)
    IN  /\ auditPending' = Append(auditPending, event)
        /\ auditNextId' = auditNextId + 1
        /\ auditClock' = auditClock + elapsed
        /\ logged' = Append(logged, event)

\* ingest_case: process_case raised, db.rollback() discards the case row
\* and the events of the run
RollbackCase ==
    /\ auditPending' = <<>>
    /\ caseRun' = [caseRun EXCEPT !.pc = -1, !.status = "none"]
    /\ auditOut' = [kind |-> "rolled_back"]
    /\ UNCHANGED <<auditRows, auditNextId, auditClock, logged>>

\* the next stage of process_case (steps 1 to 7 of the code; step 6, the
\* claim row, is part of the narrative stage): the stage's work, then its
\* audit event
RunStage ==
    /\ caseRun.pc \in 0..5
    /\ \E normalized \in (IF caseRun.pc = 2 THEN CaseNormalizedDatas ELSE { <<>> }),
          elapsed \in StageElapsed(caseRun.pc + 1) :
          LET stage == caseRun.pc + 1
              rule_result == IF stage = 3
                             THEN EvaluateResult(normalized, hashSeed, auditClock)
                             ELSE caseRun.rule_result
          IN  IF rule_result.kind = "raised"
              THEN RollbackCase
              ELSE /\ LogInRun(StageEvents[stage],
                               IF stage = 3 THEN rule_result.triggered_rules ELSE <<>>,
                               elapsed)
                   /\ caseRun' = [caseRun EXCEPT !.pc = stage, !.status = "processing",
                                                 !.rule_result = rule_result]
                   /\ auditOut' = [kind |-> "staged"]
                   /\ UNCHANGED auditRows
    /\ UNCHANGED <<omegaVars, hashVars, genVars, storeVars, ruleVars, logVars, narrVars>>

\* a stage (normaliser, classifier, retrieval, narrative generator) raises
StageRaises ==
    /\ caseRun.pc \in 1..5
    /\ RollbackCase
    /\ UNCHANGED <<omegaVars, hashVars, genVars, storeVars, ruleVars, logVars, narrVars>>

\* steps 8 and finalise: the alert and its event when the risk score reaches
\* the threshold, case.status = "pending_review", db.commit()
FinaliseCase ==
    /\ caseRun.pc = 6
    /\ \E elapsed \in StageElapsed(7) :
          LET alert == caseRun.rule_result.risk_score >= RISK_ALERT_THRESHOLD
              event == AuditEvent(AssignedId(auditNextId), NewCaseId, "ALERT_CREATED",
                                  [triggered_rules |-> <<>>], "system", auditClock + elapsed)
              added == IF alert THEN <<event>> ELSE <<>>
          IN  /\ auditRows' = auditRows \o auditPending \o added
              /\ auditPending' = <<>>
              /\ auditNextId' = IF alert THEN auditNextId + 1 ELSE auditNextId
              /\ auditClock' = IF alert THEN auditClock + elapsed ELSE auditClock
              /\ logged' = logged \o added
    /\ caseRun' = [caseRun EXCEPT !.pc = 7, !.status = "pending_review", !.committed = TRUE]
    /\ auditOut' = [kind |-> "committed"]
    /\ UNCHANGED <<omegaVars, hashVars, genVars, storeVars, ruleVars, logVars, narrVars>>

(***************************************************************************)
(* audit-trail-system: CaseAuditService and SARAuditService.  Every log_*  *)
(* method builds one AuditLog entry, adds it to the session, commits and   *)
(* refreshes it.  Of the entry the model keeps the id, the event type, the *)
(* case_id and the error flag.                                             *)
(***************************************************************************)
LogCaseIds == { "CASE-001", "CASE-002" }

CaseAuditMethods ==
    { "log_case_created", "log_case_updated", "log_alert_added", "log_case_viewed",
      "log_alert_reviewed" }

SARAuditMethods ==
    { "log_sar_generation_started", "log_sar_reasoning_generated", "log_sar_report_generated",
      "log_sar_report_reviewed", "log_sar_report_submitted", "log_sar_generation_failed" }

\* the AuditEventType each method writes
AuditEventTypeOf(method) ==
    CASE method = "log_case_created" -> "CASE_CREATED"
      [] method = "log_case_updated" -> "CASE_UPDATED"
      [] method = "log_alert_added" -> "ALERT_ADDED"
      [] method = "log_case_viewed" -> "CASE_VIEWED"
      [] method = "log_alert_reviewed" -> "ALERT_REVIEWED"
      [] method = "log_sar_generation_started" -> "SAR_GENERATION_STARTED"
      [] method = "log_sar_reasoning_generated" -> "SAR_REASONING_GENERATED"
      [] method = "log_sar_report_generated" -> "SAR_REPORT_GENERATED"
      [] method = "log_sar_report_reviewed" -> "SAR_REPORT_REVIEWED"
      [] method = "log_sar_report_submitted" -> "SAR_REPORT_SUBMITTED"
      [] method = "log_sar_generation_failed" -> "SAR_GENERATION_FAILED"

\* AuditLog(...): error_occurred is set by log_sar_generation_failed and has
\* the column default False otherwise
AuditLogEntry(method, case_id, id) ==
    [ id |-> id, event_type |-> AuditEventTypeOf(method), case_id |-> case_id,
      error_occurred |-> (method = "log_sar_generation_failed") ]

AddWithoutCommit(table, entry) == table

\* self.db.add(audit_entry); self.db.commit()
AddAndCommit(table, entry) == Append(table, entry)

\* the body the log_* methods share
LogAuditEntry(method, case_id) ==
    LET entry == AuditLogEntry(method, case_id, Len(audit_logs) + 1)
    IN  /\ audit_logs' = AddAndCommit(audit_logs, entry)
        /\ auditLogCalls' = Append(auditLogCalls, [method |-> method, case_id |-> case_id])
        /\ auditLogOut' = [kind |-> "entry", entry |-> entry]

\* a log_* call on CaseAuditService
CaseAuditServiceLog ==
    /\ Len(auditLogCalls) < MaxLogCalls
    /\ \E method \in CaseAuditMethods, case_id \in LogCaseIds : LogAuditEntry(method, case_id)
    /\ UNCHANGED <<omegaVars, hashVars, genVars, storeVars, auditVars, ruleVars, narrVars>>

\* a log_* call on SARAuditService
SARAuditServiceLog ==
    /\ Len(auditLogCalls) < MaxLogCalls
    /\ \E method \in SARAuditMethods, case_id \in LogCaseIds : LogAuditEntry(method, case_id)
    /\ UNCHANGED <<omegaVars, hashVars, genVars, storeVars, auditVars, ruleVars, narrVars>>

(***************************************************************************)
(* routes/narratives.  Each request runs in its own session: the handler   *)
(* queries the latest narrative of the case, then adds its changes and     *)
(* commits.  Requests of several clients interleave between the query and  *)
(* the commit.                                                             *)
(***************************************************************************)
NarrativeCaseId == "CASE-1"

NarrativeContents == { "first text", "second text" }

NarrativeUser == "analyst"

IdleRequest ==
    [ op |-> "none", pc |-> "idle", latest |-> 0, row |-> 0, content |-> "", outcome |-> "none",
      version |-> 0, highest |-> 0 ]

\* the highest version the table holds, 0 for an empty table
LatestVersion(rows) ==
    IF rows = <<>> THEN 0
    ELSE CHOOSE v \in { rows[i].version : i \in 1..Len(rows) } :
            \A i \in 1..Len(rows) : rows[i].version <= v

\* order_by(Narrative.version.desc()).first(): a row of the highest version
LatestRows(rows) == { i \in 1..Len(rows) : rows[i].version = LatestVersion(rows) }

\* audit.log(case_id, event_type, {...}, user.username) committed with the
\* request
NarrativeAudit(event_type, version) ==
    LET event == AuditEvent(AssignedId(auditNextId), NarrativeCaseId, event_type,
                            [version |-> version], NarrativeUser, auditClock + 1)
    IN  /\ auditRows' = Append(auditRows, event)
        /\ auditNextId' = auditNextId + 1
        /\ auditClock' = auditClock + 1
        /\ logged' = Append(logged, event)

\* edit_narrative up to new_version = (latest.version + 1) if latest else 1
EditNarrativeQuery ==
    /\ \E r \in 1..MaxRequests, content \in NarrativeContents :
          /\ narrRequests[r].pc = "idle"
          /\ narrRequests' = [narrRequests EXCEPT ![r] =
                 [IdleRequest EXCEPT !.op = "edit", !.pc = "queried",
                                     !.latest = LatestVersion(narrativeRows),
                                     !.content = content]]
    /\ UNCHANGED <<narrativeRows, omegaVars, hashVars, genVars, storeVars, auditVars, ruleVars, logVars>>

\* edit_narrative from Narrative(...) to db.commit().  Whether the table
\* refuses a second row of the same case and version is decided by the
\* Narrative model: the commit either stores the row or, when the version
\* is taken, may raise.
EditNarrativeCommit ==
    /\ \E r \in 1..MaxRequests :
          LET request == narrRequests[r]
              new_version == request.latest + 1
              narr == [ case_id |-> NarrativeCaseId, version |-> new_version,
                        content |-> request.content, status |-> "draft" ]
              taken == \E i \in 1..Len(narrativeRows) : narrativeRows[i].version = new_version
          IN  /\ request.op = "edit" /\ request.pc = "queried"
              /\ \/ /\ narrativeRows' = Append(narrativeRows, narr)
                    /\ NarrativeAudit("NARRATIVE_EDITED", new_version)
                    /\ narrRequests' = [narrRequests EXCEPT ![r] =
                           [request EXCEPT !.pc = "done", !.outcome = "inserted",
                                           !.version = new_version,
                                           !.highest = LatestVersion(narrativeRows)]]
                 \/ /\ taken
                    /\ narrRequests' = [narrRequests EXCEPT ![r] =
                           [request EXCEPT !.pc = "done", !.outcome = "IntegrityError",
                                           !.highest = LatestVersion(narrativeRows)]]
                    /\ UNCHANGED <<narrativeRows, auditRows, auditNextId, auditClock, logged>>
    /\ UNCHANGED <<auditPending, auditOut, caseRun, omegaVars, hashVars, genVars, storeVars, ruleVars, logVars>>

\* approve_narrative and reject_narrative up to the 404
ReviewQuery(r, op) ==
    /\ narrRequests[r].pc = "idle"
    /\ IF narrativeRows = <<>>
       THEN narrRequests' = [narrRequests EXCEPT ![r] =
               [IdleRequest EXCEPT !.op = op, !.pc = "done", !.outcome = "404"]]
       ELSE \E row \in LatestRows(narrativeRows) :
               narrRequests' = [narrRequests EXCEPT ![r] =
                  [IdleRequest EXCEPT !.op = op, !.pc = "queried", !.row = row,
                                      !.latest = narrativeRows[row].version]]
    /\ UNCHANGED <<narrativeRows, omegaVars, hashVars, genVars, storeVars, auditVars, ruleVars, logVars>>

\* approve_narrative and reject_narrative from narr.status = ... to
\* db.commit()
ReviewCommit(r, op, status, event_type) ==
    /\ narrRequests[r].op = op /\ narrRequests[r].pc = "queried"
    /\ narrativeRows' = [narrativeRows EXCEPT ![narrRequests[r].row].status = status]
    /\ NarrativeAudit(event_type, narrRequests[r].latest)
    /\ narrRequests' = [narrRequests EXCEPT ![r] =
           [narrRequests[r] EXCEPT !.pc = "done", !.outcome = status]]
    /\ UNCHANGED <<auditPending, auditOut, caseRun, omegaVars, hashVars, genVars, storeVars, ruleVars, logVars>>

ApproveNarrativeQuery ==
    \E r \in 1..MaxRequests : ReviewQuery(r, "approve")

ApproveNarrativeCommit ==
    \E r \in 1..MaxRequests : ReviewCommit(r, "approve", "approved", "NARRATIVE_APPROVED")

RejectNarrativeQuery ==
    \E r \in 1..MaxRequests : ReviewQuery(r, "reject")

RejectNarrativeCommit ==
    \E r \in 1..MaxRequests : ReviewCommit(r, "reject", "rejected", "NARRATIVE_REJECTED")

(***************************************************************************)
(* Initial states and specifications                                       *)
(***************************************************************************)
OmegaInit ==
    /\ filings = <<>>
    /\ omegaOut = [kind |-> "none"]
    /\ utcYear = 0
    /\ omegaGiven = {}
    /\ filingGiven = [case_id |-> <<>>, filing_number |-> NoneVal, year |-> 0, db_ok |-> TRUE]

HashInit ==
    /\ hashData = PyDict(<<>>)
    /\ hashOther = PyDict(<<>>)
    /\ hashOut = [kind |-> "none"]

GenInit ==
    /\ genGiven = [case_id |-> PyNone]
    /\ genOut = [kind |-> "none"]
    /\ rehashOut = [kind |-> "none"]

StoreInit ==
    /\ claims = <<>>
    /\ storeOut = [kind |-> "none"]
    /\ firstSaved = <<>>

AuditInit ==
    /\ auditRows = <<>>
    /\ auditPending = <<>>
    /\ auditNextId = 1
    /\ auditClock = 0
    /\ auditOut = [kind |-> "none"]
    /\ logged = <<>>
    /\ caseRun = IdleRun

RuleInit ==
    /\ ruleOut = [kind |-> "none"]
    /\ rulePrev = [kind |-> "none"]
    /\ ruleClock = 0
    /\ hashSeed = 1

LogInit ==
    /\ audit_logs = <<>>
    /\ auditLogCalls = <<>>
    /\ auditLogOut = [kind |-> "none"]

NarrInit ==
    /\ narrativeRows = <<>>
    /\ narrRequests = [r \in 1..MaxRequests |-> IdleRequest]

Init ==
    OmegaInit /\ HashInit /\ GenInit /\ StoreInit /\ AuditInit /\ RuleInit /\ LogInit /\ NarrInit

SpecOmega == Init /\ [][NextOmega]_vars

SpecFilings == Init /\ [][NextFilings]_vars

\* compute_dict_hash applied to every pair of the dictionaries of HashDicts
InitHash ==
    /\ OmegaInit
    /\ hashData \in HashDicts
    /\ hashOther \in HashDicts
    /\ hashOut = [kind |-> "none"]
    /\ GenInit
    /\ StoreInit
    /\ AuditInit
    /\ RuleInit
    /\ LogInit
    /\ NarrInit

NextHash == ComputeDictHash

SpecHash == InitHash /\ [][NextHash]_vars

NextClaim == GenerateClaim \/ RecomputeOutputHash

SpecClaim == Init /\ [][NextClaim]_vars

NextStore == SaveClaim \/ UpdateClaimStatus

SpecStore == Init /\ [][NextStore]_vars

NextCase ==
    RunStage \/ StageRaises \/ FinaliseCase \/ GetTrail \/ ReconstructSentenceReason

SpecCase == Init /\ [][NextCase]_vars

NextLogs == CaseAuditServiceLog \/ SARAuditServiceLog

SpecLogs == Init /\ [][NextLogs]_vars

NextNarratives ==
    \/ EditNarrativeQuery \/ EditNarrativeCommit
    \/ ApproveNarrativeQuery \/ ApproveNarrativeCommit
    \/ RejectNarrativeQuery \/ RejectNarrativeCommit

SpecNarratives == Init /\ [][NextNarratives]_vars

NextAudit == Log \/ CommitRun \/ RollbackRun \/ GetTrail

SpecAudit == Init /\ [][NextAudit]_vars

NextRules == Evaluate \/ EvaluateAgain \/ RestartWorker

SpecRules == Init /\ [][NextRules]_vars

(***************************************************************************)
(* Claims about the regulatory validator                                   *)
(***************************************************************************)
PassedEnough(validation_results) ==
    validation_results.passed_checks >= MIN_CHECKS_PASS

\* C1: for every finalize call that reaches storage, the regulatory_ready
\* value returned and stored is true, and the stored status is "ready",
\* exactly when passed_checks >= MIN_CHECKS_PASS; otherwise regulatory_ready
\* is false and the status is "validation_failed".
C1_ReadyIffThresholdMet ==
    /\ \A i \in 1..Len(filings) :
          LET f == filings[i]
          IN  /\ Truthy(f.regulatory_ready) <=> PassedEnough(f.validation_results)
              /\ f.status = IF PassedEnough(f.validation_results)
                            THEN "ready" ELSE "validation_failed"
    /\ omegaOut.kind = "returned" =>
          (Truthy(omegaOut.regulatory_ready) <=> PassedEnough(omegaOut.validation_results))

\* the errors that are no regulatory check failure: a missing case_id of the
\* call and a failed database write
OutsideChecklist == { "case_id is required", "Failed to store filing" }

\* C2: whenever the claim or narrative given to finalize violates one of the
\* ten checklist conditions, finalize does not raise: it stores a filing with
\* status "validation_failed" and returns the per-check list with every
\* violated check marked passed = FALSE.
C2_CheckFailureIsNotAnException ==
    (/\ omegaOut.kind \in {"raised", "returned"}
     /\ omegaGiven # {}
     /\ ~(omegaOut.kind = "raised" /\ omegaOut.error \in OutsideChecklist))
    => /\ omegaOut.kind = "returned"
       /\ filings[omegaOut.filing_id].status = "validation_failed"
       /\ Len(omegaOut.validation_results.checks) = 10
       /\ \A i \in 1..Len(omegaOut.validation_results.checks) :
             LET c == omegaOut.validation_results.checks[i]
             IN  c.name \in omegaGiven => ~c.passed

HasValidationResults == omegaOut.kind \in {"returned", "validated"}

\* C3: _run_regulatory_validation returns exactly 10 checks with the same
\* names in the same order for every claim and narrative, however many
\* checks fail, and passed_checks + failed_checks = 10.
C3_AlwaysTenChecks ==
    HasValidationResults =>
        LET vr == omegaOut.validation_results
        IN  /\ Len(vr.checks) = 10
            /\ \A i \in 1..Len(vr.checks) : vr.checks[i].name = CheckNames[i]
            /\ vr.passed_checks + vr.failed_checks = 10
            /\ vr.passed_checks = Cardinality({ i \in 1..Len(vr.checks) : vr.checks[i].passed })
            /\ vr.total_checks = 10

\* C3 witness: a validation in which check 2 failed and the later checks
\* 3 and 9 were still evaluated and failed
C3_Witness ==
    /\ omegaOut.kind = "validated"
    /\ ~omegaOut.validation_results.checks[2].passed
    /\ ~omegaOut.validation_results.checks[3].passed
    /\ ~omegaOut.validation_results.checks[9].passed
    /\ omegaOut.validation_results.failed_checks = 3

\* the check of the given name in the results of the last validation
CheckNamed(name) ==
    LET checks == omegaOut.validation_results.checks
    IN  checks[CHOOSE i \in 1..Len(checks) : checks[i].name = name]

\* the content checks of the last validation equal their conditions, the
\* condition of narrative_not_empty being the one given; a failed check has
\* an error, the length check's stating both lengths, and a passed one none
ContentChecksMatch(narrative_not_empty) ==
    LET claim     == omegaOut.claim
        narrative == omegaOut.narrative
        checks    == omegaOut.validation_results.checks
    IN  /\ CheckNamed("narrative_not_empty").passed = narrative_not_empty
        /\ CheckNamed("narrative_minimum_length").passed
              = (narrative.length >= NARRATIVE_MIN_LENGTH)
        /\ CheckNamed("case_id_present").passed = (claim.case_id # <<>>)
        /\ CheckNamed("alert_ids_present").passed = (claim.alert_ids >= 1)
        /\ CheckNamed("risk_assessment_present").passed = (claim.typologies >= 1)
        /\ CheckNamed("patterns_documented").passed = (claim.suspicious_patterns >= 1)
        /\ CheckNamed("evidence_present").passed = (claim.evidence_set >= 1)
        /\ \A i \in 1..Len(checks) :
              (checks[i].passed <=> checks[i].error = NoneVal)
        /\ ~CheckNamed("narrative_minimum_length").passed =>
              CheckNamed("narrative_minimum_length").error
                 = "Narrative too short: " \o ToString(narrative.length) \o " chars < "
                       \o ToString(NARRATIVE_MIN_LENGTH) \o " chars (regulatory minimum)"

\* C17 as stated: every content check's passed flag equals its stated
\* condition, narrative_not_empty passing iff the narrative is non-empty; a
\* failed check carries an error and a passed check none.
C17_ChecksEqualStatedConditions ==
    HasValidationResults => ContentChecksMatch(omegaOut.narrative.length > 0)

\* C17: every content check's passed flag equals its condition,
\* narrative_not_empty passing iff the narrative has a character that is not
\* whitespace; a failed check carries an error (the length check's stating
\* the actual and the minimum length) and a passed check none.
C17_ChecksEqualConditionsAfterStrip ==
    HasValidationResults => ContentChecksMatch(omegaOut.narrative.nonspace > 0)

\* C17 witness: a narrative of three blanks validated: it is not empty, and
\* narrative_not_empty and the length check failed, each with its error
C17_Witness ==
    /\ omegaOut.kind = "validated"
    /\ omegaOut.narrative.length = 3
    /\ omegaOut.narrative.nonspace = 0
    /\ ~CheckNamed("narrative_not_empty").passed
    /\ CheckNamed("narrative_not_empty").error = "Narrative is empty or whitespace only"
    /\ CheckNamed("narrative_minimum_length").error
          = "Narrative too short: 3 chars < 8000 chars (regulatory minimum)"

\* C18: check 10 passes exactly when input_hash, output_hash and
\* full_chain_hash are present and non-empty and output_hash consists of
\* exactly 64 hexadecimal characters.
C18_IntegrityCheckRequiresHex ==
    HasValidationResults =>
        (CheckNamed("integrity_hashes_valid").passed
            <=> /\ omegaOut.claim.input_hash_len > 0
                /\ omegaOut.claim.output_hash_len > 0
                /\ omegaOut.claim.full_chain_hash_len > 0
                /\ omegaOut.claim.output_hash_len = 64
                /\ omegaOut.claim.output_hash_hex)

\* a step in which a finalize call returned
FinalizeReturned == omegaOut'.kind = "returned" /\ omegaOut' # omegaOut

\* C19: the final filing table is insert-only: a step never changes or
\* removes a stored filing, a finalize call that returns adds exactly one
\* filing, the one whose id it returns, and a call that raises adds none.
C19_FilingsInsertOnly ==
    [][ /\ Len(filings') >= Len(filings)
        /\ \A i \in 1..Len(filings) : filings'[i] = filings[i]
        /\ FinalizeReturned =>
              /\ Len(filings') = Len(filings) + 1
              /\ filings'[Len(filings')].id = omegaOut'.filing_id
        /\ ~FinalizeReturned => filings' = filings ]_vars

\* C19 witness: a second filing of a case was stored next to its first,
\* whose payload differs
C19_Witness ==
    /\ Len(filings) = 2
    /\ omegaOut.kind = "returned"
    /\ omegaOut.filing_id = 2
    /\ filings[1].case_id = filings[2].case_id
    /\ filings[1].claim_object # filings[2].claim_object
    /\ filings[1].status = "ready"

\* a step in which finalize was called
FinalizeStep == <<omegaOut, filingGiven, filings>>' # <<omegaOut, filingGiven, filings>>

\* C21: a finalize call whose storing fails (the database refuses the write,
\* or the filing_number is already stored) raises an OmegaFinalizationError
\* for the storage failure and leaves the filing table as it was: no record
\* of the call, every earlier filing unchanged.
C21_StorageFailureRollsBack ==
    [][ /\ (FinalizeStep /\ ~filingGiven'.db_ok) => omegaOut'.kind # "returned"
        /\ (FinalizeStep /\ omegaOut'.kind # "returned") =>
               /\ omegaOut'.kind = "raised"
               /\ omegaOut'.exception = "OmegaFinalizationError"
               /\ omegaOut'.error = "Failed to store filing"
               /\ filings' = filings ]_vars

\* C21 witness: the database accepted writes but the commit of a second
\* filing failed on the filing_number of the first, which is still the only
\* row
C21_Witness ==
    /\ Len(filings) = 1
    /\ omegaOut.kind = "raised"
    /\ omegaOut.error = "Failed to store filing"
    /\ filingGiven.db_ok
    /\ filingGiven.filing_number = filings[1].filing_number

\* the number finalize generates for the case ids of the model
ExpectedFilingNumber(case_id, year) ==
    "UKFIU-" \o (IF year = 0 THEN "2026" ELSE IF year = 1 THEN "2027" ELSE "2028") \o "-"
        \o (CASE case_id = <<"4", "2">> -> "000042"
              [] case_id = <<"S", "A", "R", "-", "A", "B", "1">> -> "SAR-AB"
              [] case_id = <<"S", "A", "R", "-", "A", "B", "2">> -> "SAR-AB")

C28_NoCollisionWhenOmitted ==
    (/\ omegaOut.kind = "raised"
     /\ filingGiven.filing_number \in {NoneVal, ""}
     /\ filingGiven.db_ok)
    => omegaOut.error # "Failed to store filing"

(***************************************************************************)
(* Claims about the hash utilities                                         *)
(***************************************************************************)
\* the leaves of a dictionary, each with the path of keys that leads to it
RECURSIVE LeavesOf(_, _)
LeavesOf(v, path) ==
    IF v.t = "dict"
    THEN UNION { LeavesOf(v.items[i][2], path \o "/" \o v.items[i][1]) : i \in 1..Len(v.items) }
    ELSE { <<path, v>> }

PathsOf(d) == { pl[1] : pl \in LeavesOf(d, "") }

LeafAt(d, path) == (CHOOSE pl \in LeavesOf(d, "") : pl[1] = path)[2]

SameKeysAndValues(d1, d2) == LeavesOf(d1, "") = LeavesOf(d2, "")

ChangedPaths(d1, d2) == { p \in PathsOf(d1) : LeafAt(d1, p) # LeafAt(d2, p) }

SingleLeafChanged(d1, d2) ==
    /\ PathsOf(d1) = PathsOf(d2)
    /\ Cardinality(ChangedPaths(d1, d2)) = 1

\* C10 as stated: dictionaries with the same keys and values hash
\* identically whatever the insertion order at each nesting level, and two
\* dictionaries that differ in exactly one leaf value hash differently.
C10_StableAndSensitive ==
    hashOut.kind = "hashed" =>
        /\ SameKeysAndValues(hashData, hashOther) => hashOut.first = hashOut.second
        /\ SingleLeafChanged(hashData, hashOther) => hashOut.first # hashOut.second

\* C10 amended: dictionaries with the same keys and values hash identically
\* whatever the insertion order at each nesting level, and two dictionaries
\* that differ in exactly one leaf hash differently provided the old and the
\* new leaf value have different JSON texts under default=str.
C10_StableAndSensitiveToSerialisedChange ==
    hashOut.kind = "hashed" =>
        /\ SameKeysAndValues(hashData, hashOther) => hashOut.first = hashOut.second
        /\ (/\ SingleLeafChanged(hashData, hashOther)
            /\ \A p \in ChangedPaths(hashData, hashOther) :
                   JsonDumps(LeafAt(hashData, p)) # JsonDumps(LeafAt(hashOther, p)))
           => hashOut.first # hashOut.second

\* C10 witness: the same content inserted in a different order at the top
\* and at the nested level, hashed to the same digest
C10_Witness ==
    /\ hashOut.kind = "hashed"
    /\ SameKeysAndValues(hashData, hashOther)
    /\ hashData.items[1][1] # hashOther.items[1][1]
    /\ \E i, j \in 1..2 : /\ hashData.items[i][2].t = "dict"
                          /\ hashOther.items[j][2].t = "dict"
                          /\ hashData.items[i][2] # hashOther.items[j][2]
    /\ hashOut.first = hashOut.second

\* the output_hash stored in the integrity_hashes section of a claim
StoredOutputHash(claim) ==
    DictGet(DictGet(claim, "integrity_hashes", PyNone), "output_hash", PyNone).s

\* C4: for every claim generate_claim returns, compute_claim_output_hash
\* recomputed over the returned claim equals the output_hash stored in its
\* integrity_hashes section.
C4_RecomputedOutputHashMatches ==
    genOut.kind = "returned" =>
        compute_claim_output_hash(genOut.claim) = StoredOutputHash(genOut.claim)

(***************************************************************************)
(* Claims about the claim storage                                          *)
(***************************************************************************)
\* C5: after any sequence of save_claim and update_claim_status calls, the
\* claim data stored under a claim_id (what get_claim returns) is identical
\* to the claim object that was stored when the claim_id was first saved.
C5_StoredClaimImmutable ==
    \A id \in DOMAIN claims : GetClaim(claims, id) = firstSaved[id]

(***************************************************************************)
(* Claims about the audit trail                                            *)
(***************************************************************************)
\* C6: once log has returned an event, the event is among the events of its
\* case in the audit trail, unchanged, after any sequence of later
\* operations, a roll back by the caller of a failed pipeline run included.
C6_LoggedEventsStayInTrail ==
    \A i \in 1..Len(logged) :
        \E j \in 1..Len(RowsOfCase(VisibleRows, logged[i].case_id)) :
            RowsOfCase(VisibleRows, logged[i].case_id)[j] = logged[i]

\* C7: get_trail(case_id) returns exactly the events the table holds for the
\* case, ordered by timestamp and, among equal timestamps, by id, which is
\* the order of the log calls.
C7_TrailInCallOrder ==
    auditOut.kind = "trail" =>
        auditOut.events = [i \in 1..Len(auditOut.rows) |-> TrailEntry(auditOut.rows[i])]

\* the event types of a sequence of events
TypesOf(events) == [i \in 1..Len(events) |-> events[i].event_type]

\* the names of the rules of an event's data whose result has triggered set
FiredIn(event) ==
    { event.event_data.triggered_rules[k].rule_name :
        k \in { j \in 1..Len(event.event_data.triggered_rules) :
                  event.event_data.triggered_rules[j].triggered } }

\* C25: the chain reconstruct_sentence_reason returns has exactly one step
\* per event of the trail it walked, in the order of the trail, each step
\* named after its event's type, and the step of a RULES_EVALUATED event
\* lists exactly the names of the rules that triggered in that event.
C25_ChainMirrorsTrail ==
    auditOut.kind = "reconstruction" =>
        /\ Len(auditOut.chain) = Len(auditOut.trail)
        /\ \A i \in 1..Len(auditOut.trail) :
              /\ auditOut.chain[i].step = auditOut.trail[i].event_type
              /\ auditOut.chain[i].timestamp = auditOut.trail[i].timestamp
              /\ auditOut.trail[i].event_type = "RULES_EVALUATED" =>
                    LET listed == auditOut.chain[i].triggered_rules
                    IN  /\ { listed[k] : k \in 1..Len(listed) } = FiredIn(auditOut.trail[i])
                        /\ Len(listed) = Cardinality(FiredIn(auditOut.trail[i]))

\* C25 witness: the chain of a completed run in which some rules triggered
\* and some did not
C25_Witness ==
    /\ auditOut.kind = "reconstruction"
    /\ Len(auditOut.chain) = 7
    /\ \E i \in 1..Len(auditOut.chain) :
          /\ auditOut.chain[i].step = "RULES_EVALUATED"
          /\ Len(auditOut.chain[i].triggered_rules) \in 1..7
          /\ Len(auditOut.trail[i].event_data.triggered_rules) = 8

\* the events of a completed run, in the order it logs them
ExpectedEvents ==
    StageEvents \o (IF caseRun.rule_result.risk_score >= 7500
                    THEN <<"ALERT_CREATED">> ELSE <<>>)

\* the part of C29 that is about the rows of the table, in the order of
\* their insertion
PipelineRowsCommittedInOrder ==
    /\ caseRun.status = "pending_review" => caseRun.pc = 7
    /\ caseRun.committed <=> RowsOfCase(auditRows, NewCaseId) # <<>>
    /\ caseRun.pc = 7 => TypesOf(RowsOfCase(auditRows, NewCaseId)) = ExpectedEvents

\* C29: for a process_case run that completed, the audit trail of the case
\* consists of CASE_CREATED, DATA_NORMALIZED, RULES_EVALUATED, ML_SCORED,
\* RAG_RETRIEVED and NARRATIVE_GENERATED in this order, followed by
\* ALERT_CREATED iff the risk score is at least 0.75; the status is
\* pending_review only when all of them are logged, and the case and its
\* events are committed together.
C29_PipelineTrail ==
    /\ PipelineRowsCommittedInOrder
    /\ (caseRun.pc = 7 /\ auditOut.kind = "trail" /\ auditOut.case_id = NewCaseId) =>
          TypesOf(auditOut.events) = ExpectedEvents

\* the log holds one entry per log_* call, in call order, each with the
\* event type of its method and the case_id given
LogMatchesCalls ==
    /\ Len(audit_logs) = Len(auditLogCalls)
    /\ \A i \in 1..Len(auditLogCalls) :
          /\ audit_logs[i].case_id = auditLogCalls[i].case_id
          /\ audit_logs[i].event_type = AuditEventTypeOf(auditLogCalls[i].method)

\* a step appends exactly one entry and leaves the earlier entries as they
\* were
LogAppendsOne ==
    /\ Len(audit_logs') = Len(audit_logs) + 1
    /\ SubSeq(audit_logs', 1, Len(audit_logs)) = audit_logs
    /\ auditLogOut'.entry = audit_logs'[Len(audit_logs')]

\* C26: every log_* operation of CaseAuditService and SARAuditService
\* appends exactly one committed entry with the given case_id; after n calls
\* the log holds n entries in call order, no earlier entry is altered or
\* removed, and a failed SAR generation leaves its started and failed
\* entries in the log.
C26_LogAppendOnly == [](LogMatchesCalls) /\ [][LogAppendsOne]_logVars

\* C26 witness: a SAR generation that started and failed, both entries in
\* the log, the second flagged as an error
C26_Witness ==
    /\ Len(audit_logs) = 2
    /\ auditLogCalls[1].method = "log_sar_generation_started"
    /\ auditLogCalls[2].method = "log_sar_generation_failed"
    /\ audit_logs[1].event_type = "SAR_GENERATION_STARTED"
    /\ audit_logs[2].event_type = "SAR_GENERATION_FAILED"
    /\ audit_logs[2].error_occurred /\ ~audit_logs[1].error_occurred
    /\ audit_logs[1].case_id = audit_logs[2].case_id

\* no two narrative rows of a case share a version
NoSharedVersion ==
    \A i, j \in 1..Len(narrativeRows) :
        (i # j /\ narrativeRows[i].case_id = narrativeRows[j].case_id) =>
            narrativeRows[i].version # narrativeRows[j].version

\* every edit_narrative call that returned has inserted a row whose version
\* is one more than the highest version the case had
EditsInsertNextVersion ==
    \A r \in 1..MaxRequests :
        (narrRequests[r].op = "edit" /\ narrRequests[r].pc = "done") =>
            /\ narrRequests[r].outcome = "inserted"
            /\ narrRequests[r].version = narrRequests[r].highest + 1

\* a step leaves the case, version and content of the rows the table held
NarrativeContentKept ==
    /\ Len(narrativeRows') >= Len(narrativeRows)
    /\ \A i \in 1..Len(narrativeRows) :
          /\ narrativeRows'[i].case_id = narrativeRows[i].case_id
          /\ narrativeRows'[i].version = narrativeRows[i].version
          /\ narrativeRows'[i].content = narrativeRows[i].content

NarrativeHistoryImmutable == [][NarrativeContentKept]_narrVars

\* C30: every edit_narrative call inserts a row whose version is one more
\* than the highest existing version of the case, and under any
\* interleaving of concurrent edit, approve and reject requests no two
\* narrative rows of the case share a version.
C30_UniquelyVersioned == NoSharedVersion /\ EditsInsertNextVersion

(***************************************************************************)
(* Claims about the rule engine                                            *)
(***************************************************************************)
\* the rules of a result that triggered
TriggeredOf(result) == SelectSeq(result.triggered_rules, LAMBDA r : r.triggered)

\* the sum of the triggered contributions and the sanctions and PEP boosts
BoostedSum(result) ==
    SumField(TriggeredOf(result), "risk_contribution")
        + (IF result.input.kyc.sanctions_match THEN 1500 ELSE 0)
        + (IF result.input.kyc.pep_status THEN 500 ELSE 0)

\* C8: the risk score evaluate returns is 0.05 when no rule triggered and
\* otherwise min(1.0, sum of the triggered risk contributions + 0.15 for a
\* sanctions match + 0.05 for a PEP); it always lies in [0.05, 1.0].
C8_RiskScoreFormula ==
    ruleOut.kind = "evaluated" =>
        /\ TriggeredOf(ruleOut) = <<>> => ruleOut.risk_score = 500
        /\ TriggeredOf(ruleOut) # <<>> =>
               ruleOut.risk_score = IF BoostedSum(ruleOut) < 10000 THEN BoostedSum(ruleOut) ELSE 10000
        /\ 500 <= ruleOut.risk_score
        /\ ruleOut.risk_score <= 10000

\* C8 witness: an evaluation of a sanctioned PEP whose contributions and
\* boosts add up to more than 1.0 and whose score is clamped to 1.0
C8_Witness ==
    /\ ruleOut.kind = "evaluated"
    /\ ruleOut.input.kyc.sanctions_match
    /\ ruleOut.input.kyc.pep_status
    /\ BoostedSum(ruleOut) > 10000
    /\ ruleOut.risk_score = 10000

\* C9: two calls of evaluate with the same normalized_data return the same
\* risk_score, the same confidence_score and the same typologies list.
C9_EvaluateDeterministic ==
    (/\ ruleOut.kind = "evaluated"
     /\ rulePrev.kind = "evaluated"
     /\ ruleOut.input = rulePrev.input)
    => /\ ruleOut.risk_score = rulePrev.risk_score
       /\ ruleOut.confidence_score = rulePrev.confidence_score
       /\ ruleOut.typologies = rulePrev.typologies

\* the composite confidence is the exact mean of the confidences of the
\* triggered rules of the result
ConfidenceIsExactMean(result) ==
    result.confidence_score * Len(TriggeredOf(result))
        = SumField(TriggeredOf(result), "confidence")

\* the composite confidence is within half of 0.0001 of that mean
ConfidenceIsRoundedMean(result) ==
    LET count == Len(TriggeredOf(result))
        diff  == result.confidence_score * count - SumField(TriggeredOf(result), "confidence")
    IN  -count <= 2 * diff /\ 2 * diff <= count

\* C22 as stated: the composite confidence evaluate returns equals the
\* arithmetic mean of the confidences of the triggered rules, and 0 when no
\* rule triggered.
C22_ConfidenceIsMeanOfTriggered ==
    ruleOut.kind = "evaluated" =>
        /\ TriggeredOf(ruleOut) = <<>> => ruleOut.confidence_score = 0
        /\ ConfidenceIsExactMean(ruleOut)

\* C22: the composite confidence evaluate returns equals the arithmetic
\* mean of the confidences of the triggered rules rounded to four decimal
\* places, and 0 when no rule triggered; rules that did not trigger do not
\* enter the mean.
C22_ConfidenceIsRoundedMeanOfTriggered ==
    ruleOut.kind = "evaluated" =>
        /\ TriggeredOf(ruleOut) = <<>> => ruleOut.confidence_score = 0
        /\ ConfidenceIsRoundedMean(ruleOut)

\* C22 witness: some rules triggered and some did not, and the mean of the
\* triggered confidences is no multiple of 0.0001
C22_Witness ==
    /\ ruleOut.kind = "evaluated"
    /\ Len(TriggeredOf(ruleOut)) \in 2..7
    /\ SumField(TriggeredOf(ruleOut), "confidence") % Len(TriggeredOf(ruleOut)) # 0
    /\ ConfidenceIsRoundedMean(ruleOut)

\* the result of the rule of the given name in an evaluation
ResultOfRule(result, rule_name) ==
    LET rules == result.triggered_rules
    IN  rules[CHOOSE i \in 1..Len(rules) : rules[i].rule_name = rule_name]

NamesOfTriggered(result) ==
    { TriggeredOf(result)[i].rule_name : i \in 1..Len(TriggeredOf(result)) }

\* C23: threshold_check triggers exactly when max_transaction_amount is
\* greater than 1,000,000 or the total inflow is greater than 5,000,000, and
\* when it is the only rule that triggers, the risk score is 0.25 and the
\* confidence 0.9.
C23_ThresholdCheck ==
    ruleOut.kind = "evaluated" =>
        /\ ResultOfRule(ruleOut, "threshold_check").triggered
               <=> \/ ruleOut.input.aggregates.max_transaction_amount > 1000000
                   \/ ruleOut.input.aggregates.total_credit > 5000000
        /\ NamesOfTriggered(ruleOut) = {"threshold_check"} =>
               /\ ruleOut.risk_score = 2500
               /\ ruleOut.confidence_score = 9000

\* C23 witness: threshold_check alone triggered, on a single transaction
\* just above the threshold
C23_Witness ==
    /\ ruleOut.kind = "evaluated"
    /\ NamesOfTriggered(ruleOut) = {"threshold_check"}
    /\ ruleOut.input.aggregates.max_transaction_amount = 1000001
    /\ ruleOut.risk_score = 2500
    /\ ruleOut.confidence_score = 9000

\* the number of transactions of the input with an amount in the band
BandTransactions(result) ==
    Cardinality({ i \in 1..Len(result.input.transactions) :
                    /\ result.input.transactions[i].amount >= 900000
                    /\ result.input.transactions[i].amount <= 999999 })

\* C24: structuring_check triggers exactly when at least 3 transactions
\* have an amount in [900,000, 999,999]; when it triggers its typology is
\* structuring, which is among the typologies of the evaluation, and when it
\* does not it contributes nothing to the risk score.
C24_StructuringCheck ==
    ruleOut.kind = "evaluated" =>
        LET r == ResultOfRule(ruleOut, "structuring_check")
        IN  /\ r.triggered <=> BandTransactions(ruleOut) >= 3
            /\ r.triggered =>
                   /\ r.typology = "structuring"
                   /\ \E i \in 1..Len(ruleOut.typologies) : ruleOut.typologies[i] = "structuring"
            /\ ~r.triggered =>
                   /\ r.risk_contribution = 0
                   /\ \A i \in 1..Len(ruleOut.typologies) : ruleOut.typologies[i] # "structuring"

\* C24 witness: three transactions in the band, two of them on its bounds,
\* triggered the rule
C24_Witness ==
    /\ ruleOut.kind = "evaluated"
    /\ BandTransactions(ruleOut) = 3
    /\ \E i \in 1..3 : ruleOut.input.transactions[i].amount = 900000
    /\ \E i \in 1..3 : ruleOut.input.transactions[i].amount = 999999
    /\ ResultOfRule(ruleOut, "structuring_check").triggered
    /\ "structuring_check" \in NamesOfTriggered(ruleOut)

\* C16: a normalized_data that lacks a section (transactions, kyc or
\* aggregates) or has an ill-typed one makes evaluate fail, and every
\* evaluation that returns has results for all eight rules, the composite
\* scores computed over them.
C16_MalformedInputFailsWhole ==
    ruleOut.kind # "none" =>
        /\ (ruleOut.input.missing # {} \/ ruleOut.input.kyc.risk_rating = NoneVal)
               => ruleOut.kind = "raised"
        /\ ruleOut.kind = "evaluated" =>
               /\ Len(ruleOut.triggered_rules) = 8
               /\ ruleOut.reasoning_artifact.rules_evaluated = 8
               /\ ruleOut.reasoning_artifact.rules_triggered = Len(TriggeredOf(ruleOut))

\* C11: two claim objects that differ only in the contents or the presence
\* of the integrity_hashes section have the same output hash.
C11_OutputHashIgnoresIntegrityHashes ==
    rehashOut.kind = "rehashed" =>
        (DictPop(rehashOut.other, "integrity_hashes") = DictPop(genOut.claim, "integrity_hashes")
            => rehashOut.first = rehashOut.second)

\* C11 witness: the returned claim and a copy whose integrity_hashes section
\* holds other digests, hashed to the same output hash
C11_Witness ==
    /\ rehashOut.kind = "rehashed"
    /\ DictHas(rehashOut.other, "integrity_hashes")
    /\ DictGet(rehashOut.other, "integrity_hashes", PyNone)
           # DictGet(genOut.claim, "integrity_hashes", PyNone)
    /\ PyTruthy(DictGet(rehashOut.other, "integrity_hashes", PyNone))
    /\ rehashOut.first = rehashOut.second

(***************************************************************************)
(* Claims about generate_claim                                             *)
(***************************************************************************)
StoredHash(claim, name) ==
    DictGet(DictGet(claim, "integrity_hashes", PyNone), name, PyStr("")).s

\* a text that can be a digest: not empty and no shorter than a digest
IsDigest(text) == text # "" /\ Len(text) >= Len(compute_sha256(""))

\* C12: in every claim generate_claim returns, full_chain_hash is the
\* SHA-256 of input_hash, output_hash and the pipeline chain hash of the
\* supplied transforms concatenated in this order, input_hash is the hash of
\* the supplied inputs, and the three stored hashes are digests.
C12_FullChainHashFormula ==
    genOut.kind = "returned" =>
        LET input_hash  == StoredHash(genOut.claim, "input_hash")
            output_hash == StoredHash(genOut.claim, "output_hash")
            full_chain  == StoredHash(genOut.claim, "full_chain_hash")
        IN  /\ full_chain =
                   compute_sha256(input_hash \o output_hash
                       \o compute_pipeline_chain_hash(genGiven.pipeline_transforms))
            /\ input_hash =
                   compute_claim_input_hash(genGiven.case_id, genGiven.alert_ids,
                       genGiven.customer_data, genGiven.rule_results, genGiven.fraud_scores)
            /\ IsDigest(input_hash) /\ IsDigest(output_hash) /\ IsDigest(full_chain)

\* C12 witness: a claim returned for a non-empty list of transforms, its
\* three hashes all different
C12_Witness ==
    /\ genOut.kind = "returned"
    /\ Len(genGiven.pipeline_transforms.items) > 0
    /\ StoredHash(genOut.claim, "full_chain_hash") # StoredHash(genOut.claim, "input_hash")
    /\ StoredHash(genOut.claim, "full_chain_hash") # StoredHash(genOut.claim, "output_hash")
    /\ StoredHash(genOut.claim, "full_chain_hash") =
           compute_sha256(StoredHash(genOut.claim, "input_hash")
               \o StoredHash(genOut.claim, "output_hash")
               \o compute_pipeline_chain_hash(genGiven.pipeline_transforms))

\* the preconditions of generate_claim the given arguments violate, each as
\* the message that names it
ViolatedPreconditions ==
    LET cd == genGiven.customer_data
    IN  (IF genGiven.case_id.s = "" THEN {"case_id is required and cannot be empty"} ELSE {})
        \cup (IF Len(genGiven.alert_ids.items) = 0
              THEN {"At least one alert_id is required"} ELSE {})
        \cup (IF Len(cd.items) = 0
              THEN {"customer_data is required and cannot be empty"} ELSE {})
        \cup { "customer_data missing required field: " \o field :
                 field \in { f \in {"customer_id", "kyc", "accounts"} : ~DictHas(cd, f) } }

\* C13: generate_claim called with an empty case_id, no alert_id or a
\* customer_data lacking customer_id, kyc or accounts raises a
\* ClaimGenerationError that names a violated precondition, having taken no
\* step after the defaults (no hash, no section, no object), and returns no
\* claim.
C13_InvalidInputsFailFirst ==
    (genOut.kind # "none" /\ ViolatedPreconditions # {}) =>
        /\ genOut.kind = "raised"
        /\ genOut.exception = "ClaimGenerationError"
        /\ genOut.error \in { "Failed to generate claim: " \o msg : msg \in ViolatedPreconditions }
        /\ genOut.steps = <<"defaults">>
        /\ genOut.claim = PyNone

\* C13 witness: the call with a customer_data that lacks only accounts,
\* everything else valid, was refused
C13_Witness ==
    /\ genOut.kind = "raised"
    /\ ViolatedPreconditions = {"customer_data missing required field: accounts"}
    /\ genOut.error = "Failed to generate claim: customer_data missing required field: accounts"
    /\ genOut.steps = <<"defaults">>

\* the keys of the twelve sections of a Claim Object
ClaimSectionKeys ==
    { "claim_id", "case_id", "alert_ids", "version", "timestamp_created",
      "timestamp_last_updated", "stage", "status", "environment", "jurisdiction",
      "model_version", "user_id", "data_lineage_hash",
      "subject", "pipeline_transforms", "suspicious_patterns", "evidence_set",
      "detection_logic", "risk_assessment", "regulatory_hooks", "generation_trace",
      "audit_trail", "security_controls", "integrity_hashes" }

PiiCount(claim, name) ==
    DictGet(DictGet(claim, "security_controls", PyNone), name, PyNone).n

\* the constraints of the schema read off a returned (JSON mode) claim
PassesSchema(claim) ==
    LET transforms == DictGet(claim, "pipeline_transforms", PyNone).items
    IN  /\ DictGet(claim, "environment", PyNone).s \in {"on-prem", "aws", "multi-cloud"}
        /\ \A i \in 1..Len(transforms) : Len(DictGet(transforms[i], "hash", PyNone).s) = 64
        /\ PiiCount(claim, "pii_redacted") <= PiiCount(claim, "pii_detected")
        /\ FromIsoFormat(DictGet(claim, "timestamp_last_updated", PyNone)).n
               >= FromIsoFormat(DictGet(claim, "timestamp_created", PyNone)).n

\* the pii counts generate_claim works with: the given ones, or the defaults
GivenPii(name) ==
    IF genGiven.pii_controls = PyNone THEN 0
    ELSE DictGet(genGiven.pii_controls, name, PyInt(0)).n

\* the given arguments violate a type or range constraint of the schema
GivenViolatesSchema ==
    \/ genGiven.environment.s \notin {"on-prem", "aws", "multi-cloud"}
    \/ \E i \in 1..Len(genGiven.pipeline_transforms.items) :
          Len(DictGet(genGiven.pipeline_transforms.items[i], "hash", PyStr("")).s) # 64
    \/ GivenPii("pii_redacted") > GivenPii("pii_detected")

C27_StepsInOrderAndHashedContentKept ==
    genOut.kind = "returned" =>
        /\ genOut.steps = << "defaults", "validate_inputs", "compute_hashes",
                             "populate_sections", "assemble", "output_hash",
                             "integrity_hashes", "ClaimObject", "model_dump" >>
        /\ DictPop(genOut.claim, "integrity_hashes").items
               = DictPop(genOut.hashed, "integrity_hashes").items

\* C15: generate_claim given pii counts with pii_redacted > pii_detected
\* raises ClaimGenerationError (the construction of the Claim Object fails
\* validation), and every claim it returns has pii_redacted <= pii_detected
\* and timestamp_last_updated >= timestamp_created.
C15_PiiAndTimestampInvariants ==
    /\ (genOut.kind # "none" /\ GivenPii("pii_redacted") > GivenPii("pii_detected")) =>
          (genOut.kind = "raised" /\ genOut.exception = "ClaimGenerationError")
    /\ genOut.kind = "returned" =>
          /\ PiiCount(genOut.claim, "pii_redacted") <= PiiCount(genOut.claim, "pii_detected")
          /\ FromIsoFormat(DictGet(genOut.claim, "timestamp_last_updated", PyNone)).n
                 >= FromIsoFormat(DictGet(genOut.claim, "timestamp_created", PyNone)).n

\* C15 witness: arguments valid but for pii_redacted > pii_detected; the
\* construction of the Claim Object, the eighth step, failed
C15_Witness ==
    /\ genOut.kind = "raised"
    /\ GivenPii("pii_redacted") > GivenPii("pii_detected")
    /\ ViolatedPreconditions = {}
    /\ genOut.steps = SubSeq(GenerateSteps, 1, 7)
    /\ genOut.cause = "ValidationError"

====
